---------------------------- MODULE Spec2Model ----------------------------
(***************************************************************************)
(* A model of build-it-agent: the priority MPMC queue (src/src/rusq.rs)    *)
(* and the job scheduler that feeds on it (src/src/executor.rs).           *)
(*                                                                         *)
(* The specifications share the queue's state and operations:              *)
(*   SpecQueue  free clients of the queue: producers calling send /        *)
(*              send_blocking, consumers calling try_recv / recv_timeout,  *)
(*              and shutdown(); SpecTryRecv, SpecSend and SpecNack are     *)
(*              the same queue with fewer kinds of call;                   *)
(*   Spec       the executor: POST /execute handlers and the worker pool,  *)
(*              which use the queue exactly as executor.rs does (Normal    *)
(*              band, send_message, recv_timeout).  executor.rs never      *)
(*              calls shutdown(), so Spec has no shutdown step.            *)
(*                                                                         *)
(* Every access to shared memory (an atomic, a channel operation, a        *)
(* registry write under the lock) is one step; code between two such       *)
(* accesses is local and is folded into the step that follows it.          *)
(***************************************************************************)
EXTENDS Integers, Sequences, FiniteSets, TLC

(***************************************************************************)
(* Bounds of the model and constants of the program.                       *)
(***************************************************************************)
\* capacity of each of the four bands (RusqConfig.capacity, scaled down)
Capacity == 2
\* messages the clients of SpecQueue construct in one run
MaxMsgs == 3
\* jobs admitted in one run of Spec
MaxJobs == 3
\* test cases of the request followed through execute_request
MaxCases == 2
\* the most processes running when the monitor takes its snapshot
MaxProcs == 2
\* the most entries of the denylist
MaxDeny == 2
MaxOut == 2

\* enum Priority
Low == 0
Normal == 1
High == 2
Critical == 3
\* RusqConfig::default().max_retries, and the value executor.rs configures
MaxRetries == 3
\* the largest retry count: Message.retry_count is a u32, and its range
\* 0..u32::MAX is scaled down to 0..RetryCountMax
RetryCountMax == 7
\* tc.timeout_ms.unwrap_or(5000)
DefaultTimeoutMs == 5000
\* the largest gauge value: the gauges are AtomicU64s, and their range
\* 0..u64::MAX is scaled down to 0..GaugeMax
GaugeMax == 7

Priorities == {Low, Normal, High, Critical}

\* the handles created at construction
Producers == {"p1", "p2"}
Consumers == {"c1", "c2"}
\* concurrent POST /execute requests, and the worker pool
Handlers == {"h1", "h2"}
Workers == {"w1", "w2"}

\* language keys a request may name; the toolchain table; the probed subset
Languages == {"python3", "gcc", "brainfuck"}
Configs == {"python3", "gcc"}

\* retry counts a nacked message may carry (Message's fields are public)
RetryInputs == {0, MaxRetries - 1, MaxRetries, RetryCountMax}

VARIABLES
    bands,          \* band -> FIFO of messages (the four channels)
    dlq,            \* the dead-letter channel
    is_shutdown,    \* MpmcQueue.is_shutdown
    enable_metrics, \* RusqConfig.enable_metrics
    metrics,        \* RusqMetrics
    msg_counter,    \* generate_message_id's COUNTER
    pst,            \* producer -> state of its call in progress
    cst,            \* consumer (or worker) -> state of its call in progress
    next_id,        \* AppState.next_id
    jobs,           \* AppState.jobs, the registry
    hst,            \* handler -> state of its request in progress
    wst,            \* worker -> position in worker_loop
    allocLog,       \* history: the job ids in the order they were allocated
    host,           \* the machine: scratch workspaces and children of the jobs
    mon,            \* the monitor: process table, denylist, kills and answers
    probe           \* run(): the toolchain probes and AppState.available

vars == <<bands, dlq, is_shutdown, enable_metrics, metrics, msg_counter,
          pst, cst, next_id, jobs, hst, wst, allocLog, host, mon, probe>>

(***************************************************************************)
(* Messages and results.                                                   *)
(***************************************************************************)
NoPayload == <<0, "">>

\* Message::new(payload, topic).with_priority(priority); timestamp and topic
\* are never read by the queue and are left out
NewMessage(id, payload, priority) ==
    [id |-> id, payload |-> payload, priority |-> priority, retry_count |-> 0]

NoMsg == [id |-> -1, payload |-> NoPayload, priority |-> Low, retry_count |-> 0]

\* What a consumer's last call returned; probed is the set of bands a
\* try_recv probed and found empty before it returned.
NoRes == [op |-> "none", kind |-> "None", msg |-> NoMsg, probed |-> {}]

BandsTotal(b) == Len(b[Low]) + Len(b[Normal]) + Len(b[High]) + Len(b[Critical])

NonEmptyAbove(b, p) == {q \in Priorities : q > p /\ Len(b[q]) > 0}

\* band is the position in ScanOrder of the band a try_recv probes next
IdleC == [pc |-> "idle", band |-> 1, probed |-> {}, res |-> NoRes]
IdleP == [pc |-> "idle", msg |-> NoMsg, res |-> "None"]

\* run() has probed the toolchains and found python3 and gcc installed
Probed == [pc |-> "serving", todo |-> {}, installed |-> <<>>, last |-> <<>>,
           available |-> {"python3", "gcc"},
           langs_list |-> <<"python3", "gcc">>]

\* state.available
Available == probe.available

(***************************************************************************)
(* RusqMetrics.                                                            *)
(***************************************************************************)
ZeroMetrics ==
    [messages_sent |-> 0, messages_received |-> 0, messages_failed |-> 0,
     messages_retried |-> 0, active_producers |-> 0, active_consumers |-> 0]

\* if self.config.enable_metrics { self.metrics.increment_<field>() }
Bump(m, field) ==
    IF enable_metrics THEN [m EXCEPT ![field] = @ + 1] ELSE m


(***************************************************************************)
(* The channels.                                                           *)
(***************************************************************************)
\* bounded(cap): try_send fails with Full when the band holds cap messages
BandFullOffByOne(b, p) == Len(b[p]) > Capacity
BandFull(b, p) == Len(b[p]) >= Capacity

\* sender.try_send(message) / sender.send(message), on success
EnqueueFront(b, m) == [b EXCEPT ![m.priority] = <<m>> \o @]
Enqueue(b, m) == [b EXCEPT ![m.priority] = Append(@, m)]

\* receiver.try_recv(), on success: the head leaves the band
PopBandKeep(b, p) == b
PopBand(b, p) == [b EXCEPT ![p] = Tail(@)]

\* try_recv probes the bands in this order and serves the first non-empty one
ScanOrderAscending == <<Low, Normal, High, Critical>>
ScanOrder == <<Critical, High, Normal, Low>>

\* select! over the four receivers: an operation is ready when its band holds
\* a message, and crossbeam picks at random among the ready operations
SelectReady(b) == {q \in Priorities : Len(b[q]) > 0}

\* if self.is_shutdown.load(SeqCst) { return Err(QueueShutdown) } in the sends
SendRejectedNever == FALSE
SendRejected == is_shutdown

\* the same test at the head of try_recv and recv_timeout
RecvRejectedNever == FALSE
RecvRejected == is_shutdown

\* message.retry_count > self.config.max_retries
ExceedsRetriesOrEqual(m) == m.retry_count >= MaxRetries
ExceedsRetries(m) == m.retry_count > MaxRetries

\* message.retry_count += 1 on a u32, as a release build computes it
IncrRetry(m) == [m EXCEPT !.retry_count = (@ + 1) % (RetryCountMax + 1)]

\* nack's retry branch: it looks up the band of the message (let _sender = ..)
\* and returns RetryRequired without sending anything
RequeueResend(b, m) == [b EXCEPT ![m.priority] = Append(@, m)]
Requeue(b, m) == b

Received(op, m, probed) ==
    [op |-> op, kind |-> "Ok", msg |-> m, probed |-> probed]

Failed(op, kind, probed) ==
    [op |-> op, kind |-> kind, msg |-> NoMsg, probed |-> probed]

(***************************************************************************)
(* MpmcQueue::shutdown.                                                    *)
(***************************************************************************)
Shutdown ==
    /\ is_shutdown' = TRUE
    /\ UNCHANGED <<bands, dlq, enable_metrics, metrics, msg_counter,
                   pst, cst, next_id, jobs, hst, wst, allocLog, host, mon, probe>>

(***************************************************************************)
(* Producer: send, send_with_priority, send_message (non-blocking) and     *)
(* send_blocking, send_message_blocking.  A call is two steps: the message *)
(* is built and the shutdown flag is read; then the channel is tried.      *)
(***************************************************************************)
SendStart(p, priority, blocking) ==
    /\ pst[p].pc = "idle"
    /\ msg_counter < MaxMsgs
    /\ msg_counter' = msg_counter + 1
    /\ pst' = [pst EXCEPT ![p] =
          IF SendRejected
          THEN [pc |-> "idle", msg |-> NoMsg, res |-> "QueueShutdown"]
          ELSE [pc |-> IF blocking THEN "bput" ELSE "put",
                msg |-> NewMessage(msg_counter, NoPayload, priority),
                res |-> "None"]]
    /\ UNCHANGED <<bands, dlq, is_shutdown, enable_metrics, metrics,
                   cst, next_id, jobs, hst, wst, allocLog,
                   host, mon, probe>>

\* match sender.try_send(message)
SendPutCountsFull(p) ==
    /\ pst[p].pc = "put"
    /\ metrics' = Bump(metrics, "messages_sent")
    /\ IF BandFull(bands, pst[p].msg.priority)
       THEN /\ pst' = [pst EXCEPT ![p] = [pc |-> "idle", msg |-> NoMsg, res |-> "QueueFull"]]
            /\ bands' = bands
       ELSE /\ bands' = Enqueue(bands, pst[p].msg)
            /\ pst' = [pst EXCEPT ![p] = [pc |-> "idle", msg |-> NoMsg, res |-> "Ok"]]
    /\ UNCHANGED <<dlq, is_shutdown, enable_metrics, msg_counter,
                   cst, next_id, jobs, hst, wst, allocLog,
                   host, mon, probe>>
SendPut(p) ==
    /\ pst[p].pc = "put"
    /\ IF BandFull(bands, pst[p].msg.priority)
       THEN /\ pst' = [pst EXCEPT ![p] = [pc |-> "idle", msg |-> NoMsg, res |-> "QueueFull"]]
            /\ UNCHANGED <<bands, metrics>>
       ELSE /\ bands' = Enqueue(bands, pst[p].msg)
            /\ metrics' = Bump(metrics, "messages_sent")
            /\ pst' = [pst EXCEPT ![p] = [pc |-> "idle", msg |-> NoMsg, res |-> "Ok"]]
    /\ UNCHANGED <<dlq, is_shutdown, enable_metrics, msg_counter,
                   cst, next_id, jobs, hst, wst, allocLog,
                   host, mon, probe>>

\* match sender.send(message): waits while the band is full
SendBlockingPut(p) ==
    /\ pst[p].pc = "bput"
    /\ ~BandFull(bands, pst[p].msg.priority)
    /\ bands' = Enqueue(bands, pst[p].msg)
    /\ metrics' = Bump(metrics, "messages_sent")
    /\ pst' = [pst EXCEPT ![p] = [pc |-> "idle", msg |-> NoMsg, res |-> "Ok"]]
    /\ UNCHANGED <<dlq, is_shutdown, enable_metrics, msg_counter,
                   cst, next_id, jobs, hst, wst, allocLog,
                   host, mon, probe>>

(***************************************************************************)
(* Consumer::try_recv: the flag is read, then the bands are probed one     *)
(* channel operation at a time.                                            *)
(***************************************************************************)
TryRecvStart(c) ==
    /\ cst[c].pc = "idle"
    /\ cst' = [cst EXCEPT ![c] =
          IF RecvRejected
          THEN [IdleC EXCEPT !.res = Failed("try_recv", "QueueShutdown", {})]
          ELSE [pc |-> "scan", band |-> 1, probed |-> {}, res |-> NoRes]]
    /\ UNCHANGED <<bands, dlq, is_shutdown, enable_metrics, metrics, msg_counter,
                   pst, next_id, jobs, hst, wst, allocLog,
                   host, mon, probe>>

TryRecvProbe(c) ==
    /\ cst[c].pc = "scan"
    /\ LET b == ScanOrder[cst[c].band] IN
       IF Len(bands[b]) > 0
       THEN /\ bands' = PopBand(bands, b)
            /\ metrics' = Bump(metrics, "messages_received")
            /\ cst' = [cst EXCEPT ![c] = [IdleC EXCEPT !.res =
                   Received("try_recv", Head(bands[b]), cst[c].probed)]]
       ELSE /\ UNCHANGED <<bands, metrics>>
            /\ cst' = [cst EXCEPT ![c] =
                   IF cst[c].band = Len(ScanOrder)
                   THEN [IdleC EXCEPT !.res =
                           Failed("try_recv", "Empty", cst[c].probed \cup {b})]
                   ELSE [cst[c] EXCEPT !.band = @ + 1,
                                       !.probed = @ \cup {b}]]
    /\ UNCHANGED <<dlq, is_shutdown, enable_metrics, msg_counter,
                   pst, next_id, jobs, hst, wst, allocLog,
                   host, mon, probe>>

(***************************************************************************)
(* Consumer::recv_timeout.  An iteration of its loop that finds the flag   *)
(* clear, the timer running and no band ready changes nothing and goes     *)
(* round again, so a call is its last iteration: the flag is set           *)
(* (QueueShutdown), or the timer has run out (Timeout), or select! takes a *)
(* message from one of the ready bands.                                    *)
(***************************************************************************)
RecvTimeoutOutcomes ==
    IF RecvRejected
    THEN {Failed("recv_timeout", "QueueShutdown", {})}
    ELSE {Failed("recv_timeout", "Timeout", {})}
         \cup {Received("recv_timeout", Head(bands[b]), {}) : b \in SelectReady(bands)}

RecvTimeoutEffect(r) ==
    IF r.kind = "Ok"
    THEN /\ bands' = PopBand(bands, r.msg.priority)
         /\ metrics' = Bump(metrics, "messages_received")
    ELSE UNCHANGED <<bands, metrics>>

RecvTimeout(c) ==
    /\ cst[c].pc = "idle"
    /\ \E r \in RecvTimeoutOutcomes :
          /\ RecvTimeoutEffect(r)
          /\ cst' = [cst EXCEPT ![c] = [IdleC EXCEPT !.res = r]]
    /\ UNCHANGED <<dlq, is_shutdown, enable_metrics, msg_counter,
                   pst, next_id, jobs, hst, wst, allocLog,
                   host, mon, probe>>

(***************************************************************************)
(* Consumer::nack(message), on the message the consumer received last,     *)
(* carrying retry count rc.  retry_count += 1 overflows at its largest value: a     *)
(* build with overflow checks panics there, a release build wraps.         *)
(***************************************************************************)
Nack(c, rc) ==
    /\ cst[c].pc = "idle"
    /\ cst[c].res.kind = "Ok"
    /\ cst[c].res.op \in {"try_recv", "recv_timeout"}
    /\ LET m == [cst[c].res.msg EXCEPT !.retry_count = rc]
           m2 == IncrRetry(m)
           done(kind, msg) == [cst EXCEPT ![c] = [IdleC EXCEPT !.res =
                  [NoRes EXCEPT !.op = "nack", !.kind = kind, !.msg = msg]]]
       IN \/ /\ rc = RetryCountMax
             /\ cst' = done("Panic", m)
             /\ UNCHANGED <<bands, dlq, metrics>>
          \/ IF ExceedsRetries(m2)
             THEN /\ dlq' = Append(dlq, m2)
                  /\ bands' = bands
                  /\ metrics' = Bump(metrics, "messages_failed")
                  /\ cst' = done("Ok", m2)
             ELSE /\ dlq' = dlq
                  /\ bands' = Requeue(bands, m2)
                  /\ metrics' = Bump(Bump(metrics, "messages_failed"), "messages_retried")
                  /\ cst' = done("RetryRequired", m2)
    /\ UNCHANGED <<is_shutdown, enable_metrics, msg_counter,
                   pst, next_id, jobs, hst, wst, allocLog,
                   host, mon, probe>>

(***************************************************************************)
(* The caller re-sends after nack has returned RetryRequired.  nack took   *)
(* the message by value and the copy it incremented is gone, so the caller *)
(* sends what it has: the payload in a new message ("new": send,           *)
(* send_with_priority, retry count 0 and a new id) or a clone of the       *)
(* message taken before the nack ("clone": send_message, the retry count   *)
(* of the delivery).  The first component of the payload is the caller's   *)
(* own data: here the number of times it has re-sent this payload.         *)
(***************************************************************************)
Resent(m) == m.payload[1]

Resubmission(m, how, id) ==
    IF how = "new"
    THEN NewMessage(id, <<Resent(m) + 1, m.payload[2]>>, m.priority)
    ELSE [m EXCEPT !.payload = <<Resent(m) + 1, m.payload[2]>>,
                   !.retry_count = @ - 1]

Resubmit(p, c, how) ==
    /\ pst[p].pc = "idle"
    /\ cst[c].pc = "idle"
    /\ cst[c].res.op = "nack"
    /\ cst[c].res.kind = "RetryRequired"
    /\ Resent(cst[c].res.msg) <= MaxRetries
    /\ msg_counter' = IF how = "new" THEN msg_counter + 1 ELSE msg_counter
    /\ pst' = [pst EXCEPT ![p] =
          IF SendRejected
          THEN [pc |-> "idle", msg |-> NoMsg, res |-> "QueueShutdown"]
          ELSE [pc |-> "put",
                msg |-> Resubmission(cst[c].res.msg, how, msg_counter),
                res |-> "None"]]
    /\ cst' = [cst EXCEPT ![c] = IdleC]
    /\ UNCHANGED <<bands, dlq, is_shutdown, enable_metrics, metrics,
                   next_id, jobs, hst, wst, allocLog, host, mon, probe>>

(***************************************************************************)
(* Handles: MpmcQueue::producer / consumer create one, Drop releases it.   *)
(* A handle is borrowed for the length of a call, so it is released only   *)
(* between calls.                                                          *)
(***************************************************************************)
ReleasedP == [IdleP EXCEPT !.pc = "released"]
ReleasedC == [IdleC EXCEPT !.pc = "released"]

LiveProducers == {p \in Producers : pst[p].pc # "released"}
LiveConsumers == {c \in Consumers : cst[c].pc # "released"}

\* if self.config.enable_metrics { self.metrics.add_producer() }: a fetch_add
AddHandle(m, field) ==
    IF enable_metrics THEN [m EXCEPT ![field] = (@ + 1) % (GaugeMax + 1)] ELSE m

\* self.metrics.remove_producer() in drop: a fetch_sub, whatever the config
RemoveHandleGuarded(m, field) ==
    IF m[field] > 1 THEN [m EXCEPT ![field] = @ - 1] ELSE m
RemoveHandle(m, field) == [m EXCEPT ![field] = (@ - 1) % (GaugeMax + 1)]

ProducerCreate(p) ==
    /\ pst[p].pc = "released"
    /\ pst' = [pst EXCEPT ![p] = IdleP]
    /\ metrics' = AddHandle(metrics, "active_producers")
    /\ UNCHANGED <<bands, dlq, is_shutdown, enable_metrics, msg_counter,
                   cst, next_id, jobs, hst, wst, allocLog,
                   host, mon, probe>>

ProducerDrop(p) ==
    /\ pst[p].pc = "idle"
    /\ pst' = [pst EXCEPT ![p] = ReleasedP]
    /\ metrics' = RemoveHandle(metrics, "active_producers")
    /\ UNCHANGED <<bands, dlq, is_shutdown, enable_metrics, msg_counter,
                   cst, next_id, jobs, hst, wst, allocLog,
                   host, mon, probe>>

ConsumerCreate(c) ==
    /\ cst[c].pc = "released"
    /\ cst' = [cst EXCEPT ![c] = IdleC]
    /\ metrics' = AddHandle(metrics, "active_consumers")
    /\ UNCHANGED <<bands, dlq, is_shutdown, enable_metrics, msg_counter,
                   pst, next_id, jobs, hst, wst, allocLog,
                   host, mon, probe>>

ConsumerDrop(c) ==
    /\ cst[c].pc = "idle"
    /\ cst' = [cst EXCEPT ![c] = ReleasedC]
    /\ metrics' = RemoveHandle(metrics, "active_consumers")
    /\ UNCHANGED <<bands, dlq, is_shutdown, enable_metrics, msg_counter,
                   pst, next_id, jobs, hst, wst, allocLog,
                   host, mon, probe>>

(***************************************************************************)
(* The job registry and POST /execute (enqueue_handler).                   *)
(***************************************************************************)
JobIds == 1..MaxJobs

Absent == [state |-> "Absent", detail |-> ""]
Queued == [state |-> "Queued", detail |-> ""]
Running == [state |-> "Running", detail |-> ""]
Completed(resp) == [state |-> "Completed", detail |-> resp]
Error(e) == [state |-> "Error", detail |-> e]

\* format!("queue error: {:?}", e)
QueueErrorText(e) ==
    IF e = "QueueFull" THEN "queue error: QueueFull" ELSE "queue error: QueueShutdown"

\* what execute_request returns: Ok(ExecuteResponse) with its status, or Err
ExecOutcomes == {Completed("success"), Completed("compile_error"), Error("framework error")}

NoResp == [code |-> 0, id |-> 0]
IdleH == [pc |-> "idle", id |-> 0, lang |-> "", err |-> "", resp |-> NoResp]
IdleW == [pc |-> "recv", id |-> 0, lang |-> ""]

\* state.next_id.fetch_add(1, Relaxed): the new value of the counter
FetchAddStale(v) == v
FetchAdd(v) == v + 1

\* the 400 answer to a language outside the available set
RejectAfterAlloc(h, lang) ==
    /\ hst' = [hst EXCEPT ![h] = [IdleH EXCEPT !.lang = lang,
                                               !.resp = [code |-> 400, id |-> 0]]]
    /\ next_id' = next_id + 1
    /\ UNCHANGED <<jobs, allocLog,
                   host, mon, probe>>
Reject(h, lang) ==
    /\ hst' = [hst EXCEPT ![h] = [IdleH EXCEPT !.lang = lang,
                                               !.resp = [code |-> 400, id |-> 0]]]
    /\ UNCHANGED <<next_id, jobs, allocLog,
                   host, mon, probe>>

\* if !state.available.contains(&req.language) { return 400 }
EnqueueReject(h, lang) ==
    /\ hst[h].pc = "idle"
    /\ lang \notin Available
    /\ Reject(h, lang)
    /\ UNCHANGED <<bands, dlq, is_shutdown, enable_metrics, metrics, msg_counter,
                   pst, cst, wst, host, mon, probe>>

\* let id = state.next_id.fetch_add(1, Ordering::Relaxed)
EnqueueAlloc(h, lang) ==
    /\ hst[h].pc = "idle"
    /\ lang \in Available
    /\ next_id <= MaxJobs
    /\ next_id' = FetchAdd(next_id)
    /\ allocLog' = Append(allocLog, next_id)
    /\ hst' = [hst EXCEPT ![h] = [IdleH EXCEPT !.pc = "insert", !.id = next_id,
                                               !.lang = lang]]
    /\ UNCHANGED <<bands, dlq, is_shutdown, enable_metrics, metrics, msg_counter,
                   pst, cst, jobs, wst, host, mon, probe>>

\* jobs.insert(id, JobState::Queued)
EnqueueInsert(h) ==
    /\ hst[h].pc = "insert"
    /\ jobs' = [jobs EXCEPT ![hst[h].id] = Queued]
    /\ hst' = [hst EXCEPT ![h].pc = "send"]
    /\ UNCHANGED <<bands, dlq, is_shutdown, enable_metrics, metrics, msg_counter,
                   pst, cst, next_id, wst, allocLog,
                   host, mon, probe>>

\* state.queue.producer(); Message::new(..).with_priority(Normal);
\* producer.send_message(message).  The producer handle is released when the
\* handler returns: at once on success, after the registry write on failure.
EnqueueSend(h) ==
    /\ hst[h].pc = "send"
    /\ msg_counter' = msg_counter + 1
    /\ LET m == NewMessage(msg_counter, <<hst[h].id, hst[h].lang>>, Normal)
           e == IF SendRejected THEN "QueueShutdown"
                ELSE IF BandFull(bands, Normal) THEN "QueueFull" ELSE ""
       IN IF e = ""
          THEN /\ bands' = Enqueue(bands, m)
               /\ metrics' = Bump(metrics, "messages_sent")
               /\ hst' = [hst EXCEPT ![h] =
                      [IdleH EXCEPT !.resp = [code |-> 202, id |-> hst[h].id]]]
          ELSE /\ bands' = bands
               /\ metrics' = Bump(metrics, "active_producers")
               /\ hst' = [hst EXCEPT ![h].pc = "fail", ![h].err = e]
    /\ UNCHANGED <<dlq, is_shutdown, enable_metrics, pst, cst, next_id, jobs,
                   wst, allocLog,
                   host, mon, probe>>

\* jobs.insert(id, JobState::Error(format!("queue error: {:?}", e))); 500.
\* hst[h].id keeps the id the request had drawn (the answer does not carry it).
EnqueueFailRemove(h) ==
    /\ hst[h].pc = "fail"
    /\ jobs' = [jobs EXCEPT ![hst[h].id] = Absent]
    /\ metrics' = [metrics EXCEPT !.active_producers = @ - 1]
    /\ hst' = [hst EXCEPT ![h] = [IdleH EXCEPT !.id = hst[h].id,
                                               !.resp = [code |-> 500, id |-> 0]]]
    /\ UNCHANGED <<bands, dlq, is_shutdown, enable_metrics, msg_counter,
                   pst, cst, next_id, wst, allocLog,
                   host, mon, probe>>
EnqueueFail(h) ==
    /\ hst[h].pc = "fail"
    /\ jobs' = [jobs EXCEPT ![hst[h].id] = Error(QueueErrorText(hst[h].err))]
    /\ metrics' = [metrics EXCEPT !.active_producers = @ - 1]
    /\ hst' = [hst EXCEPT ![h] = [IdleH EXCEPT !.id = hst[h].id,
                                               !.resp = [code |-> 500, id |-> 0]]]
    /\ UNCHANGED <<bands, dlq, is_shutdown, enable_metrics, msg_counter,
                   pst, cst, next_id, wst, allocLog,
                   host, mon, probe>>

(***************************************************************************)
(* worker_loop.                                                            *)
(***************************************************************************)
\* match consumer.recv_timeout(Duration::from_secs(1)): Ok goes on to the
\* registry, QueueShutdown breaks, Timeout and any other error continue
WorkerRecv(w) ==
    /\ wst[w].pc = "recv"
    /\ \E r \in RecvTimeoutOutcomes :
          /\ RecvTimeoutEffect(r)
          /\ wst' = [wst EXCEPT ![w] =
                 IF r.kind = "Ok"
                 THEN [pc |-> "mark", id |-> r.msg.payload[1], lang |-> r.msg.payload[2]]
                 ELSE IF r.kind = "QueueShutdown" THEN [IdleW EXCEPT !.pc = "exited"]
                 ELSE IdleW]
    /\ UNCHANGED <<dlq, is_shutdown, enable_metrics, msg_counter,
                   pst, cst, next_id, jobs, hst, allocLog,
                   host, mon, probe>>

\* jobs.insert(id, JobState::Running)
WorkerMarkRunning(w) ==
    /\ wst[w].pc = "mark"
    /\ jobs' = [jobs EXCEPT ![wst[w].id] = Running]
    /\ wst' = [wst EXCEPT ![w].pc = "exec"]
    /\ UNCHANGED <<bands, dlq, is_shutdown, enable_metrics, metrics, msg_counter,
                   pst, cst, next_id, hst, allocLog,
                   host, mon, probe>>

\* let res = execute_request(&req, &state).await; jobs.insert(id, Completed | Error)
WorkerStore(w, outcome) ==
    /\ wst[w].pc = "exec"
    /\ jobs' = [jobs EXCEPT ![wst[w].id] = outcome]
    /\ wst' = [wst EXCEPT ![w] = IdleW]
    /\ UNCHANGED <<bands, dlq, is_shutdown, enable_metrics, metrics, msg_counter,
                   pst, cst, next_id, hst, allocLog,
                   host, mon, probe>>

(***************************************************************************)
(* execute_request.  Text is a sequence of characters and a child's output *)
(* a sequence of bytes: "nl" is a newline (the same as a byte and as a     *)
(* character), "xFF" is a byte that is not valid UTF-8 and "ufffd" the     *)
(* replacement character.  The fields of a result that no  *)
(* verdict depends on (input, stderr, duration_ms, memory_kb, term_signal) *)
(* are left out, and a test case's id is its position in the request.      *)
(***************************************************************************)
\* Option<T>
None == [some |-> FALSE, val |-> <<>>]
Some(x) == [some |-> TRUE, val |-> x]
UnwrapOr(opt, d) == IF opt.some THEN opt.val ELSE d

\* LanguageConfig.compile_command of the dispatch table
CompileCommand(lang) == IF lang = "gcc" THEN Some("gcc") ELSE None

\* String::from_utf8_lossy(&bytes).to_string()
Lossy(bytes) ==
    [i \in 1..Len(bytes) |-> IF bytes[i] = "xFF" THEN "ufffd" ELSE bytes[i]]

\* TestCase.expected, TestCase.timeout_ms
TestCases ==
    [expected : {None, Some(<<>>), Some(<<"nl">>)},
     timeout_ms : {None, Some(200)}]

\* What a child does, left to itself: the time after which it exits, the
\* status it exits with and the bytes it has written to stdout by then.
Children ==
    [runtime : {200, 6000},
     status : {"exit0", "exit1", "signal"},
     out : {<<>>, <<"nl">>, <<"xFF">>}]

\* tokio::select! over child.wait() and the sleep: a branch can be taken when
\* its future is ready, and either when both are.  On the sleep branch the
\* kill is best-effort: a child still running is reaped with the kill's
\* signal, or with its own status if it exits before the kill lands.
SelectOutcomes(child, timeout_ms) ==
    (IF child.runtime <= timeout_ms
     THEN {[timed_out |-> FALSE, status |-> child.status]} ELSE {})
    \cup (IF child.runtime >= timeout_ms
          THEN {[timed_out |-> TRUE, status |-> child.status]} ELSE {})
    \cup (IF child.runtime > timeout_ms
          THEN {[timed_out |-> TRUE, status |-> "signal"]} ELSE {})

\* status.code(), status.success()
ExitCode(status) ==
    CASE status = "exit0" -> Some(0)
      [] status = "exit1" -> Some(1)
      [] OTHER -> None
Success(status) == status = "exit0"

\* let ok = success && !timed_out
OkIgnoresTimeout(success, timed_out) == success
Ok(success, timed_out) == success /\ ~timed_out

\* Some(exp) => stdout == *exp, None => false
StripNewline(t) ==
    IF Len(t) > 0 /\ t[Len(t)] = "nl" THEN SubSeq(t, 1, Len(t) - 1) ELSE t
PassedTrimmed(expected, stdout) ==
    IF expected.some THEN StripNewline(stdout) = StripNewline(expected.val) ELSE FALSE
Passed(expected, stdout) ==
    IF expected.some THEN stdout = expected.val ELSE FALSE

\* the CaseResult pushed for test case i
RunCase(i, tc, child, sel) ==
    LET stdout == Lossy(child.out)
    IN [id |-> i,
        ok |-> Ok(Success(sel.status), sel.timed_out),
        passed |-> Passed(tc.expected, stdout),
        expected |-> tc.expected,
        stdout |-> stdout,
        timed_out |-> sel.timed_out,
        exit_code |-> ExitCode(sel.status)]

\* Result<ExecuteResponse>
ExecErr(e) == [ok |-> FALSE, err |-> e, resp |-> <<>>]
ExecOk(resp) == [ok |-> TRUE, err |-> "", resp |-> resp]
NoExecRes == ExecErr("")

\* the response returned when the compiler exits non-zero
CompileErrorResponseKeepsFlag(lang, stderr) ==
    [compiled |-> TRUE, language |-> lang, status |-> "compile_error",
     message |-> Some(Lossy(stderr)), results |-> <<>>]
CompileErrorResponse(lang, stderr) ==
    [compiled |-> FALSE, language |-> lang, status |-> "compile_error",
     message |-> Some(Lossy(stderr)), results |-> <<>>]

\* the response returned after the loop over the test cases
SuccessResponse(compiled, lang, results) ==
    [compiled |-> compiled, language |-> lang, status |-> "success",
     message |-> None, results |-> results]

\* what the compiler does: it cannot be spawned, exits 0, or exits non-zero
\* having written to stderr
CompileOutcomes ==
    {[kind |-> "spawn_err", stderr |-> <<>>], [kind |-> "exit0", stderr |-> <<>>],
     [kind |-> "exit1", stderr |-> <<"e">>], [kind |-> "exit1", stderr |-> <<"xFF">>]}

\* the errors of the framework's own steps around a child: cmd.spawn()?,
\* stdin.write_all(..)? (the child has gone without reading its input) and
\* child.wait()?
CaseIoErrors == {"spawn failed", "Broken pipe", "wait failed"}

(***************************************************************************)
(* A worker inside execute_request.  Its record holds the locals of the    *)
(* call and what happened in it: todo is req.testcases.len(); cstep is     *)
(* what the compile step did ("none" when there was none) and cerr the     *)
(* bytes the compiler wrote to stderr; fate is what became of the child of *)
(* the last turn of the loop ("" when none was spawned) and late whether   *)
(* it was still running when its timeout elapsed; res is the value         *)
(* returned.                                                               *)
(***************************************************************************)
\* no test case in hand
NoCase == <<>>

\* let dir = tempfile::tempdir()?: the workspace of a job exists from its
\* creation until dir is dropped, which is when the call is over
Workspace(h, ctx) ==
    [h EXCEPT !.dirs = IF ctx.pc \in {"store", "dead"}
                       THEN @ \ {ctx.id} ELSE @ \cup {ctx.id}]

\* return Ok(..) / the ? operator: the call is over, the registry write is next
ExecDone(ctx, res) == [ctx EXCEPT !.pc = "store", !.res = res]

\* the loop over req.testcases ends after the last case, and the response
\* is built
ExecLoop(ctx) ==
    IF Len(ctx.results) = ctx.todo
    THEN ExecDone(ctx, ExecOk(SuccessResponse(ctx.compiled, ctx.lang, ctx.results)))
    ELSE [ctx EXCEPT !.pc = "cases"]

\* state.configs.get(&req.language)?, tempfile::tempdir()?, fs::write(..)?,
\* let mut compiled = false; ids are the ids of the request's test cases, in
\* the order of req.testcases
ExecPrepare(w, ids, io) ==
    /\ wst[w].pc = "exec"
    /\ LET ctx == [pc |-> "compile", id |-> wst[w].id, lang |-> wst[w].lang,
                   ids |-> ids, todo |-> Len(ids), compiled |-> FALSE,
                   cstep |-> "none", cerr |-> <<>>,
                   results |-> <<>>, fate |-> "", late |-> FALSE,
                   spawned |-> 0, cur |-> NoCase, res |-> NoExecRes]
       IN wst' = [wst EXCEPT ![w] =
              IF wst[w].lang \notin Configs
              THEN ExecDone(ctx, ExecErr("Unknown language"))
              ELSE IF io # "ok" THEN ExecDone(ctx, ExecErr(io))
              ELSE IF CompileCommand(wst[w].lang).some THEN ctx
              ELSE ExecLoop(ctx)]
    /\ host' = Workspace(host, wst'[w])
    /\ UNCHANGED <<bands, dlq, is_shutdown, enable_metrics, metrics, msg_counter,
                   pst, cst, next_id, jobs, hst, allocLog, mon,
                   probe>>

\* if let Some(compile_command) = &cfg.compile_command { cmd.output().await? .. }
ExecCompile(w, c) ==
    /\ wst[w].pc = "compile"
    /\ wst' = [wst EXCEPT ![w] =
          IF c.kind = "spawn_err"
          THEN ExecDone(wst[w], ExecErr("spawn failed"))
          ELSE IF c.kind # "exit0"
          THEN ExecDone([wst[w] EXCEPT !.cstep = "failed", !.cerr = c.stderr],
                        ExecOk(CompileErrorResponse(wst[w].lang, c.stderr)))
          ELSE ExecLoop([wst[w] EXCEPT !.compiled = TRUE, !.cstep = "ok"])]
    /\ host' = Workspace(host, wst'[w])
    /\ UNCHANGED <<bands, dlq, is_shutdown, enable_metrics, metrics, msg_counter,
                   pst, cst, next_id, jobs, hst, allocLog, mon,
                   probe>>

\* results.push(CaseResult { .. })
PushFront(results, r) == <<r>> \o results
Push(results, r) == Append(results, r)

\* one turn of for tc in &req.testcases: spawn, write stdin, select!, push
ExecCase(w, tc, child) ==
    /\ wst[w].pc = "cases"
    /\ LET timeout_ms == UnwrapOr(tc.timeout_ms, DefaultTimeoutMs) IN
       \E sel \in SelectOutcomes(child, timeout_ms) :
          wst' = [wst EXCEPT ![w] = ExecLoop([wst[w] EXCEPT
                     !.results = Push(@, RunCase(wst[w].ids[Len(@) + 1], tc,
                                                 child, sel)),
                     !.fate = IF sel.timed_out THEN "timeout" ELSE sel.status,
                     !.late = child.runtime > timeout_ms,
                     !.spawned = @ + 1])]
    /\ host' = Workspace(host, wst'[w])
    /\ UNCHANGED <<bands, dlq, is_shutdown, enable_metrics, metrics, msg_counter,
                   pst, cst, next_id, jobs, hst, allocLog, mon,
                   probe>>

\* the same turn when one of its ? operators returns the error e: no child
\* when the spawn failed; a child that exited without reading its input
\* when the write to its stdin failed
ExecCaseFails(w, e, status) ==
    /\ wst[w].pc = "cases"
    /\ wst' = [wst EXCEPT ![w] = ExecDone(
          [wst[w] EXCEPT !.fate = IF e = "Broken pipe" THEN status ELSE "",
                         !.late = FALSE,
                         !.spawned = IF e = "spawn failed" THEN @ ELSE @ + 1],
          ExecErr(e))]
    /\ host' = Workspace(host, wst'[w])
    /\ UNCHANGED <<bands, dlq, is_shutdown, enable_metrics, metrics, msg_counter,
                   pst, cst, next_id, jobs, hst, allocLog, mon,
                   probe>>

(***************************************************************************)
(* The same turn of the loop, one await at a time.  cur holds the test     *)
(* case in hand (big: its input does not fit the pipe's buffer), its child *)
(* and how the child treats its pipes; spawned counts the children the     *)
(* call has spawned.                                                       *)
(***************************************************************************)
\* How a child treats its pipes: it reads its stdin, closes it unread or
\* leaves it open unread; it exits by itself or runs until killed; a
\* descendant of it keeps its stdout and stderr open after it has gone.
Behaviours == [stdin : {"reads", "closes", "ignores"}, exits : BOOLEAN,
               holds : BOOLEAN]

\* a child of job id starts / has been reaped by child.wait()
Born(h, id) == [h EXCEPT !.kids[id] = @ + 1]
ReapedNever(h, id) == h
Reaped(h, id) == [h EXCEPT !.kids[id] = @ - 1]

\* cmd.spawn()? has returned the child
ExecSpawn(w, tc, big, child, how) ==
    /\ wst[w].pc = "cases"
    /\ wst' = [wst EXCEPT ![w] = [@ EXCEPT
          !.pc = "spawned", !.spawned = @ + 1,
          !.cur = [tc |-> tc, big |-> big, child |-> child, how |-> how,
                   sel |-> <<>>]]]
    /\ host' = Born(host, wst[w].id)
    /\ UNCHANGED <<bands, dlq, is_shutdown, enable_metrics, metrics, msg_counter,
                   pst, cst, next_id, jobs, hst, allocLog, mon,
                   probe>>

\* stdin.write_all(tc.input.as_bytes()).await: the write ends when all the
\* bytes are in the pipe, fails with EPIPE when the reading end is closed,
\* and waits as long as the pipe is full and open
WriteOutcomes(cur) ==
    CASE cur.how.stdin = "reads" -> {"ok"}
      [] cur.how.stdin = "closes" -> IF cur.big THEN {"Broken pipe"}
                                     ELSE {"ok", "Broken pipe"}
      [] OTHER -> IF ~cur.big THEN {"ok"}
                  ELSE IF cur.how.exits THEN {"Broken pipe"} ELSE {"blocked"}

\* stdin.write_all(..).await?: on the error the call returns and the child is
\* dropped, neither killed nor reaped; gone tells whether it has exited
ExecWriteStdin(w, gone) ==
    /\ wst[w].pc = "spawned"
    /\ gone \in (IF wst[w].cur.how.stdin = "ignores" THEN {TRUE} ELSE BOOLEAN)
    /\ \E o \in WriteOutcomes(wst[w].cur) :
          /\ o = "ok" => gone = FALSE
          /\ wst' = [wst EXCEPT ![w] =
                CASE o = "ok" -> [@ EXCEPT !.pc = "written"]
                  [] o = "blocked" -> [@ EXCEPT !.pc = "blocked", !.fate = "stdin"]
                  [] OTHER -> ExecDone(
                        [@ EXCEPT !.fate = IF gone THEN wst[w].cur.child.status
                                           ELSE "running"],
                        ExecErr(o))]
    /\ host' = IF gone THEN Reaped(Workspace(host, wst'[w]), wst[w].id)
               ELSE Workspace(host, wst'[w])
    /\ UNCHANGED <<bands, dlq, is_shutdown, enable_metrics, metrics, msg_counter,
                   pst, cst, next_id, jobs, hst, allocLog, mon,
                   probe>>

\* what the select! can see of a child: one that never exits is only ever
\* ended by the kill of the sleep branch
WaitOutcomes(cur, timeout_ms) ==
    IF cur.how.exits THEN SelectOutcomes(cur.child, timeout_ms)
    ELSE {[timed_out |-> TRUE, status |-> "signal"]}

\* tokio::select! { res = child.wait() => res?, _ = sleep(timeout) => { kill;
\* child.wait().await? } }
ExecSelect(w, fails) ==
    /\ wst[w].pc = "written"
    /\ LET timeout_ms == UnwrapOr(wst[w].cur.tc.timeout_ms, DefaultTimeoutMs) IN
       \E sel \in WaitOutcomes(wst[w].cur, timeout_ms) :
          wst' = [wst EXCEPT ![w] =
             IF fails THEN ExecDone([@ EXCEPT !.fate = "running"],
                                    ExecErr("wait failed"))
             ELSE [@ EXCEPT !.pc = "reaped", !.cur.sel = sel,
                            !.fate = IF sel.timed_out THEN "timeout" ELSE sel.status,
                            !.late = ~wst[w].cur.how.exits
                                     \/ wst[w].cur.child.runtime > timeout_ms]]
    /\ host' = IF fails THEN Workspace(host, wst'[w]) ELSE Reaped(host, wst[w].id)
    /\ UNCHANGED <<bands, dlq, is_shutdown, enable_metrics, metrics, msg_counter,
                   pst, cst, next_id, jobs, hst, allocLog, mon,
                   probe>>

\* out_handle.await, err_handle.await: read_to_end returns at end of file,
\* that is when no process holds the writing end of the pipe any more
ExecDrain(w) ==
    /\ wst[w].pc = "reaped"
    /\ wst' = [wst EXCEPT ![w] =
          IF wst[w].cur.how.holds
          THEN [@ EXCEPT !.pc = "blocked", !.fate = "drain"]
          ELSE [@ EXCEPT !.pc = "drained"]]
    /\ UNCHANGED <<bands, dlq, is_shutdown, enable_metrics, metrics, msg_counter,
                   pst, cst, next_id, jobs, hst, allocLog, host, mon, probe>>

\* results.push(CaseResult { id: tc.id, .. }) and the next turn
ExecPush(w) ==
    /\ wst[w].pc = "drained"
    /\ wst' = [wst EXCEPT ![w] = ExecLoop([@ EXCEPT
          !.results = Push(@, RunCase(wst[w].ids[Len(@) + 1], wst[w].cur.tc,
                                      wst[w].cur.child, wst[w].cur.sel)),
          !.cur = NoCase])]
    /\ host' = Workspace(host, wst'[w])
    /\ UNCHANGED <<bands, dlq, is_shutdown, enable_metrics, metrics, msg_counter,
                   pst, cst, next_id, jobs, hst, allocLog, mon,
                   probe>>

\* execute_request panics: the unwinding drops dir (the workspace is
\* removed), the child in hand (neither killed nor reaped) and, as nothing
\* in worker_loop catches it, the worker's task with its Consumer
ExecPanic(w) ==
    /\ wst[w].pc \in {"compile", "cases", "spawned", "written", "reaped", "drained"}
    /\ wst' = [wst EXCEPT ![w] = [@ EXCEPT !.pc = "dead"]]
    /\ host' = Workspace(host, wst'[w])
    /\ metrics' = RemoveHandle(metrics, "active_consumers")
    /\ UNCHANGED <<bands, dlq, is_shutdown, enable_metrics, msg_counter,
                   pst, cst, next_id, jobs, hst, allocLog, mon,
                   probe>>

\* match res { Ok(resp) => JobState::Completed(resp),
\*             Err(e) => JobState::Error(e.to_string()) }
StoredDropsError(res) == IF res.ok THEN Completed(res.resp) ELSE Running
Stored(res) == IF res.ok THEN Completed(res.resp) ELSE Error(res.err)

\* status_handler: the answer of GET /status/:id for a registry entry
StatusReply(st) ==
    CASE st.state = "Absent" ->
           [code |-> 404, body |-> [error |-> "Job not found"]]
      [] st.state = "Queued" -> [code |-> 200, body |-> [status |-> "queued"]]
      [] st.state = "Running" -> [code |-> 200, body |-> [status |-> "running"]]
      [] st.state = "Completed" ->
           [code |-> 200, body |-> [status |-> "completed", result |-> st.detail]]
      [] OTHER -> [code |-> 200, body |-> [status |-> "error", error |-> st.detail]]

\* jobs.insert(id, ..) with the outcome of the call
ExecStore(w) ==
    /\ wst[w].pc = "store"
    /\ jobs' = [jobs EXCEPT ![wst[w].id] = Stored(wst[w].res)]
    /\ wst' = [wst EXCEPT ![w] = IdleW]
    /\ UNCHANGED <<bands, dlq, is_shutdown, enable_metrics, metrics, msg_counter,
                   pst, cst, next_id, hst, allocLog,
                   host, mon, probe>>

(***************************************************************************)
(* The forbidden-process monitor.  A name is a sequence of characters; the *)
(* process table is a map from pid to name, visited in any order.  mon     *)
(* holds the inputs of a request (the table, the denylist, the platform,   *)
(* include_topmost and the names of the processes that own a topmost       *)
(* window) and what terminate_forbidden_processes has done so far: the     *)
(* kills attempted per pid, the pids killed, the pids and the names of the *)
(* failed kills, and the answer returned.                                  *)
(***************************************************************************)
\* char::to_lowercase and the byte order of the characters used
LowerChar(ch) == CASE ch = "C" -> "c" [] ch = "O" -> "o" [] OTHER -> ch
CharCode(ch) ==
    CASE ch = "C" -> 67 [] ch = "O" -> 79 [] ch = "c" -> 99 [] ch = "o" -> 111
      [] OTHER -> 120

\* str::to_lowercase
ToLower(name) == [i \in 1..Len(name) |-> LowerChar(name[i])]

\* str::contains
Contains(hay, needle) ==
    \E i \in 0..(Len(hay) - Len(needle)) :
       SubSeq(hay, i + 1, i + Len(needle)) = needle

\* process_lower.contains(&forbidden_lower)
MatchesCaseSensitive(name, pattern) == Contains(name, pattern)
Matches(name, pattern) == Contains(ToLower(name), ToLower(pattern))

\* the order of String: byte by byte, a prefix before its extensions
RECURSIVE NameLess(_, _)
NameLess(a, b) ==
    IF a = <<>> THEN b # <<>>
    ELSE IF b = <<>> THEN FALSE
    ELSE IF Head(a) # Head(b) THEN CharCode(Head(a)) < CharCode(Head(b))
    ELSE NameLess(Tail(a), Tail(b))

\* let mut result: Vec<String> = set.into_iter().collect(); result.sort()
RECURSIVE SortNames(_)
SortNames(set) ==
    IF set = {} THEN <<>>
    ELSE LET least == CHOOSE a \in set : \A b \in set \ {a} : NameLess(a, b)
         IN <<least>> \o SortNames(set \ {least})

\* the names of the running processes and the denylist entries considered
ProcNames == {<<"C", "o">>, <<"c", "o", "x">>, <<"o", "c">>}
Patterns == {<<"c", "O">>, <<"x">>}

\* sys.processes(): at most MaxProcs processes, pids 1..n
ProcessTables == UNION {[1..n -> ProcNames] : n \in 0..MaxProcs}

\* forbidden_list: at most MaxDeny entries
Denylists == UNION {[1..n -> Patterns] : n \in 0..MaxDeny}

\* all_processes: the names of the running processes and, when asked for,
\* those of enumerate_topmost_processes(), which is empty off Windows
Candidates(m) ==
    {m.procs[pid] : pid \in DOMAIN m.procs}
    \cup (IF m.include_topmost /\ m.windows THEN m.top ELSE {})

\* detect_forbidden_processes
DetectForbidden(m) ==
    SortNames({name \in Candidates(m) :
                 \E k \in 1..Len(m.deny) : Matches(name, m.deny[k])})

\* the variables the monitor does not touch
notMon == <<bands, dlq, is_shutdown, enable_metrics, metrics, msg_counter,
            pst, cst, next_id, jobs, hst, wst, allocLog, host, probe>>

\* GET /status: status_handler calls detect_forbidden_processes
Detect ==
    /\ mon.pc = "ready"
    /\ mon' = [mon EXCEPT !.pc = "detected", !.answer = DetectForbidden(mon)]
    /\ UNCHANGED notMon

\* DELETE /processes: terminate_forbidden_processes takes its snapshot
TerminateStart ==
    /\ mon.pc = "ready"
    /\ mon' = [mon EXCEPT !.pc = "killing", !.todo = DOMAIN mon.procs,
          !.todo2 = IF mon.windows /\ mon.include_topmost
                    THEN {<<t, pid>> \in mon.top \X DOMAIN mon.procs :
                             Contains(ToLower(mon.procs[pid]), ToLower(t))}
                    ELSE {}]
    /\ UNCHANGED notMon

\* try_kill(pid): kill -9 / taskkill on a process that is still there
\* succeeds or fails; on one that a former kill has ended it fails
KillOutcomes(m, pid) == IF pid \in m.killed THEN {FALSE} ELSE BOOLEAN

\* attempted.insert(pname); let ok = try_kill(pid); if !ok { failed.insert }
Kill(m, pid, ok) ==
    [m EXCEPT !.attempts[pid] = @ + 1,
              !.killed = IF ok THEN @ \cup {pid} ELSE @,
              !.failedPids = IF ok THEN @ ELSE @ \cup {pid},
              !.failed = IF ok THEN @ ELSE @ \cup {m.procs[pid]}]

\* one turn of for (_pid, process) in sys.processes(): the first entry of
\* the denylist that matches ends the inner loop
TerminateVisit(pid, ok) ==
    /\ mon.pc = "killing"
    /\ pid \in mon.todo
    /\ LET hit == \E k \in 1..Len(mon.deny) : Matches(mon.procs[pid], mon.deny[k])
           m == [mon EXCEPT !.todo = @ \ {pid}]
       IN /\ ok \in (IF hit THEN KillOutcomes(mon, pid) ELSE {TRUE})
          /\ mon' = IF hit THEN Kill(m, pid, ok) ELSE m
    /\ UNCHANGED notMon

\* #[cfg(windows)] if include_topmost: every process whose name contains the
\* name of an owner of a topmost window is killed as well
TerminateTopVisit(t, pid, ok) ==
    /\ mon.pc = "killing"
    /\ mon.todo = {}
    /\ <<t, pid>> \in mon.todo2
    /\ ok \in KillOutcomes(mon, pid)
    /\ mon' = Kill([mon EXCEPT !.todo2 = @ \ {<<t, pid>>}], pid, ok)
    /\ UNCHANGED notMon

\* let mut result: Vec<String> = failed.into_iter().collect(); result.sort()
TerminateReturn ==
    /\ mon.pc = "killing"
    /\ mon.todo = {}
    /\ mon.todo2 = {}
    /\ mon' = [mon EXCEPT !.pc = "terminated", !.answer = SortNames(mon.failed)]
    /\ UNCHANGED notMon

(***************************************************************************)
(* The specifications.                                                     *)
(***************************************************************************)
\* no workspace on disk, no child of any job alive
NoHost == [dirs |-> {}, kids |-> [id \in JobIds |-> 0]]

\* the monitor has not been asked anything
NoMon == [pc |-> "off"]

InitCommon ==
    /\ bands = [p \in Priorities |-> <<>>]
    /\ dlq = <<>>
    /\ is_shutdown = FALSE
    /\ enable_metrics = TRUE
    /\ msg_counter = 0
    /\ pst = [p \in Producers |-> IdleP]
    /\ cst = [c \in Consumers |-> IdleC]
    /\ next_id = 1
    /\ jobs = [id \in JobIds |-> Absent]
    /\ hst = [h \in Handlers |-> IdleH]
    /\ wst = [w \in Workers |-> IdleW]
    /\ allocLog = <<>>
    /\ host = NoHost
    /\ probe = Probed
    /\ mon = NoMon

\* the queue with free clients: a handle per producer and per consumer
InitQueue ==
    /\ InitCommon
    /\ metrics = [ZeroMetrics EXCEPT !.active_producers = Cardinality(Producers),
                                     !.active_consumers = Cardinality(Consumers)]

NextQueue ==
    \/ Shutdown
    \/ \E p \in Producers, priority \in Priorities, blocking \in BOOLEAN :
          SendStart(p, priority, blocking)
    \/ \E p \in Producers : SendPut(p)
    \/ \E p \in Producers : SendBlockingPut(p)
    \/ \E c \in Consumers : TryRecvStart(c)
    \/ \E c \in Consumers : TryRecvProbe(c)
    \/ \E c \in Consumers : RecvTimeout(c)

SpecQueue == InitQueue /\ [][NextQueue]_vars

\* non-blocking sends against try_recv: two producers, two scanning consumers
NextTryRecv ==
    \/ Shutdown
    \/ \E p \in Producers, priority \in Priorities : SendStart(p, priority, FALSE)
    \/ \E p \in Producers : SendPut(p)
    \/ \E c \in Consumers : TryRecvStart(c)
    \/ \E c \in Consumers : TryRecvProbe(c)

SpecTryRecv == InitQueue /\ [][NextTryRecv]_vars

\* the sends against shutdown(): two producers, one consumer making room
NextSend ==
    \/ Shutdown
    \/ \E p \in Producers, priority \in Priorities, blocking \in BOOLEAN :
          SendStart(p, priority, blocking)
    \/ \E p \in Producers : SendPut(p)
    \/ \E p \in Producers : SendBlockingPut(p)
    \/ RecvTimeout("c1")

SpecSend == InitQueue /\ [][NextSend]_vars

\* one producer and one consumer, which nacks what it receives
NextNack ==
    \/ Shutdown
    \/ \E priority \in Priorities, blocking \in BOOLEAN : SendStart("p1", priority, blocking)
    \/ SendPut("p1")
    \/ SendBlockingPut("p1")
    \/ TryRecvStart("c1")
    \/ TryRecvProbe("c1")
    \/ RecvTimeout("c1")
    \/ \E rc \in RetryInputs : Nack("c1", rc)

SpecNack == InitQueue /\ [][NextNack]_vars

\* a consumer that nacks every message it is handed, as delivered, and a
\* caller that re-sends whenever the nack asks for it
NextRetry ==
    \/ SendStart("p1", Normal, FALSE)
    \/ SendPut("p1")
    \/ RecvTimeout("c1")
    \/ Nack("c1", cst["c1"].res.msg.retry_count)
    \/ \E how \in {"new", "clone"} : Resubmit("p1", "c1", how)

SpecRetry == InitQueue /\ [][NextRetry]_vars

\* a new queue with no handle yet; handles come and go between the calls
InitHandles ==
    /\ bands = [p \in Priorities |-> <<>>]
    /\ dlq = <<>>
    /\ is_shutdown = FALSE
    /\ enable_metrics = TRUE
    /\ metrics = ZeroMetrics
    /\ msg_counter = 0
    /\ pst = [p \in Producers |-> ReleasedP]
    /\ cst = [c \in Consumers |-> ReleasedC]
    /\ next_id = 1
    /\ jobs = [id \in JobIds |-> Absent]
    /\ hst = [h \in Handlers |-> IdleH]
    /\ wst = [w \in Workers |-> IdleW]
    /\ allocLog = <<>>
    /\ host = NoHost
    /\ probe = Probed
    /\ mon = NoMon

NextHandles ==
    \/ \E p \in Producers : ProducerCreate(p)
    \/ \E p \in Producers : ProducerDrop(p)
    \/ \E c \in Consumers : ConsumerCreate(c)
    \/ \E c \in Consumers : ConsumerDrop(c)
    \/ \E p \in Producers : SendStart(p, Normal, FALSE)
    \/ \E p \in Producers : SendPut(p)
    \/ \E c \in Consumers : RecvTimeout(c)

SpecHandles == InitHandles /\ [][NextHandles]_vars

\* the executor: spawn_worker_pool has created one consumer per worker
Init ==
    /\ InitCommon
    /\ metrics = [ZeroMetrics EXCEPT !.active_consumers = Cardinality(Workers)]

Next ==
    \/ \E h \in Handlers, lang \in Languages : EnqueueReject(h, lang)
    \/ \E h \in Handlers, lang \in Languages : EnqueueAlloc(h, lang)
    \/ \E h \in Handlers : EnqueueInsert(h)
    \/ \E h \in Handlers : EnqueueSend(h)
    \/ \E h \in Handlers : EnqueueFail(h)
    \/ \E w \in Workers : WorkerRecv(w)
    \/ \E w \in Workers : WorkerMarkRunning(w)
    \/ \E w \in Workers, outcome \in ExecOutcomes : WorkerStore(w, outcome)

Spec == Init /\ [][Next]_vars

\* the executor following its first job through execute_request: one request,
\* one worker
\* TestCase.id: i32, chosen by the client; nothing makes the ids of a request
\* distinct or ascending
CaseIds == {1, 2}

\* the ids of a request that numbers its n test cases 1..n
PositionIds(n) == [i \in 1..n |-> i]

\* the ids of any request of at most MaxCases test cases
IdSeqs == UNION {[1..n -> CaseIds] : n \in 0..MaxCases}

NextExec ==
    \/ \E lang \in Languages : allocLog = <<>> /\ EnqueueAlloc("h1", lang)
    \/ EnqueueInsert("h1")
    \/ EnqueueSend("h1")
    \/ WorkerRecv("w1")
    \/ WorkerMarkRunning("w1")
    \/ \E n \in 0..MaxCases, io \in {"ok", "io error"} :
          ExecPrepare("w1", PositionIds(n), io)
    \/ \E c \in CompileOutcomes : ExecCompile("w1", c)
    \/ \E tc \in TestCases, child \in Children : ExecCase("w1", tc, child)
    \/ \E e \in CaseIoErrors, status \in {"exit0", "exit1", "signal"} :
          ExecCaseFails("w1", e, status)
    \/ ExecStore("w1")

SpecExec == Init /\ [][NextExec]_vars

\* the executor with one handler, the worker pool and a queue that can be
\* shut down at any time
NextWorkers ==
    \/ Shutdown
    \/ \E lang \in Available : EnqueueAlloc("h1", lang)
    \/ EnqueueInsert("h1")
    \/ EnqueueSend("h1")
    \/ EnqueueFail("h1")
    \/ \E w \in Workers : WorkerRecv(w)
    \/ \E w \in Workers : WorkerMarkRunning(w)
    \/ \E w \in Workers, outcome \in ExecOutcomes : WorkerStore(w, outcome)

SpecWorkers == Init /\ [][NextWorkers]_vars

\* one job run by one worker, the request's ids drawn freely and the children
\* silent: the order and the ids of the results
NextOrder ==
    \/ \E lang \in Languages : allocLog = <<>> /\ EnqueueAlloc("h1", lang)
    \/ EnqueueInsert("h1")
    \/ EnqueueSend("h1")
    \/ WorkerRecv("w1")
    \/ WorkerMarkRunning("w1")
    \/ \E ids \in IdSeqs, io \in {"ok", "io error"} : ExecPrepare("w1", ids, io)
    \/ \E c \in CompileOutcomes : ExecCompile("w1", c)
    \/ \E tc \in {t \in TestCases : t.expected = Some(<<>>)},
          child \in {k \in Children : k.out = <<>>} : ExecCase("w1", tc, child)
    \/ \E e \in CaseIoErrors, status \in {"exit0", "exit1", "signal"} :
          ExecCaseFails("w1", e, status)
    \/ ExecStore("w1")

SpecOrder == Init /\ [][NextOrder]_vars

\* the test cases and children of the runs followed await by await: no
\* expected output, no output, an exit status of the child's own
QuietCases == {t \in TestCases : t.expected = None}
QuietChildren == {k \in Children : k.out = <<>> /\ k.status # "signal"}

\* one job run by one worker, each turn of the loop one await at a time
NextRun ==
    \/ \E lang \in Languages : allocLog = <<>> /\ EnqueueAlloc("h1", lang)
    \/ EnqueueInsert("h1")
    \/ EnqueueSend("h1")
    \/ WorkerRecv("w1")
    \/ WorkerMarkRunning("w1")
    \/ \E n \in 0..MaxCases, io \in {"ok", "io error"} :
          ExecPrepare("w1", PositionIds(n), io)
    \/ \E c \in CompileOutcomes : ExecCompile("w1", c)
    \/ ExecCaseFails("w1", "spawn failed", "")
    \/ \E tc \in QuietCases, big \in BOOLEAN, child \in QuietChildren,
          how \in Behaviours : ExecSpawn("w1", tc, big, child, how)
    \/ \E gone \in BOOLEAN : ExecWriteStdin("w1", gone)
    \/ \E fails \in BOOLEAN : ExecSelect("w1", fails)
    \/ ExecDrain("w1")
    \/ ExecPush("w1")
    \/ ExecStore("w1")

SpecRun == Init /\ [][NextRun]_vars

\* the monitor before a request: any process table, denylist and platform;
\* off Windows no topmost window is reported, on Windows at most one
InitMonitor ==
    /\ bands = [p \in Priorities |-> <<>>]
    /\ dlq = <<>>
    /\ is_shutdown = FALSE
    /\ enable_metrics = TRUE
    /\ metrics = ZeroMetrics
    /\ msg_counter = 0
    /\ pst = [p \in Producers |-> IdleP]
    /\ cst = [c \in Consumers |-> IdleC]
    /\ next_id = 1
    /\ jobs = [id \in JobIds |-> Absent]
    /\ hst = [h \in Handlers |-> IdleH]
    /\ wst = [w \in Workers |-> IdleW]
    /\ allocLog = <<>>
    /\ host = NoHost
    /\ probe = Probed
    /\ \E procs \in ProcessTables, deny \in Denylists, windows \in BOOLEAN,
          include_topmost \in BOOLEAN :
       \E top \in {{}} \cup (IF windows THEN {{procs[pid]} : pid \in DOMAIN procs}
                              ELSE {}) :
          mon = [pc |-> "ready", procs |-> procs, deny |-> deny,
                 windows |-> windows, include_topmost |-> include_topmost,
                 top |-> top, answer |-> <<>>, todo |-> {}, todo2 |-> {},
                 attempts |-> [pid \in DOMAIN procs |-> 0], killed |-> {},
                 failedPids |-> {}, failed |-> {}]

NextMonitor ==
    \/ Detect
    \/ TerminateStart
    \/ \E pid \in 1..MaxProcs, ok \in BOOLEAN : TerminateVisit(pid, ok)
    \/ \E t \in ProcNames, pid \in 1..MaxProcs, ok \in BOOLEAN :
          TerminateTopVisit(t, pid, ok)
    \/ TerminateReturn

SpecMonitor == InitMonitor /\ [][NextMonitor]_vars

\* execute_request applied to a request of any language: job 1 is Running
\* and worker w1 is about to call execute_request for it
InitRevalidate ==
    /\ bands = [p \in Priorities |-> <<>>]
    /\ dlq = <<>>
    /\ is_shutdown = FALSE
    /\ enable_metrics = TRUE
    /\ metrics = [ZeroMetrics EXCEPT !.active_consumers = Cardinality(Workers),
                                     !.messages_sent = 1, !.messages_received = 1]
    /\ msg_counter = 1
    /\ pst = [p \in Producers |-> IdleP]
    /\ cst = [c \in Consumers |-> IdleC]
    /\ next_id = 2
    /\ jobs = [id \in JobIds |-> IF id = 1 THEN Running ELSE Absent]
    /\ hst = [h \in Handlers |-> IdleH]
    /\ \E lang \in Languages :
          wst = [w \in Workers |-> IF w = "w1"
                    THEN [pc |-> "exec", id |-> 1, lang |-> lang] ELSE IdleW]
    /\ allocLog = <<1>>
    /\ host = NoHost
    /\ probe = Probed
    /\ mon = NoMon

NextRevalidate ==
    \/ \E ids \in IdSeqs, io \in {"ok", "io error"} : ExecPrepare("w1", ids, io)
    \/ \E c \in CompileOutcomes : ExecCompile("w1", c)
    \/ \E tc \in QuietCases, child \in QuietChildren : ExecCase("w1", tc, child)
    \/ \E e \in CaseIoErrors, status \in {"exit0", "exit1", "signal"} :
          ExecCaseFails("w1", e, status)
    \/ ExecStore("w1")

SpecRevalidate == InitRevalidate /\ [][NextRevalidate]_vars

\* the same with a panic inside execute_request
NextCrash ==
    \/ NextRun
    \/ ExecPanic("w1")

SpecCrash == Init /\ [][NextCrash]_vars


(***************************************************************************)
(* Properties.                                                             *)
(***************************************************************************)
Terminal == {"Completed", "Error"}

Rank(st) ==
    CASE st = "Absent" -> 0
      [] st = "Queued" -> 1
      [] st = "Running" -> 2
      [] OTHER -> 3

\* consumer c returned from a call in this step
Returned(c, op) == cst'[c] # cst[c] /\ cst'[c].pc = "idle" /\ cst'[c].res.op = op

\* C1: whenever try_recv returns a message of priority p, it had probed every
\* band of priority higher than p, and only those, and found each of them
\* empty: the bands are scanned Critical, High, Normal, Low and the first
\* non-empty one is served.
C1_TryRecvPriorityDominance ==
    \A c \in Consumers :
        (cst[c].res.op = "try_recv" /\ cst[c].res.kind = "Ok")
        => cst[c].res.probed = {q \in Priorities : q > cst[c].res.msg.priority}

\* a try_recv returned a message while a message of lower priority, built
\* before it, was still waiting in its band
C1_Witness ==
    \E c \in Consumers :
        /\ cst[c].res.op = "try_recv"
        /\ cst[c].res.kind = "Ok"
        /\ \E q \in Priorities :
              /\ q < cst[c].res.msg.priority
              /\ \E i \in 1..Len(bands[q]) : bands[q][i].id < cst[c].res.msg.id

\* C2: when recv_timeout returns a message, no band of higher priority holds
\* a message at the moment of the pick (it serves the highest non-empty band).
C2_RecvTimeoutPriorityOrder ==
    [][\A c \in Consumers :
          (Returned(c, "recv_timeout") /\ cst'[c].res.kind = "Ok")
          => NonEmptyAbove(bands, cst'[c].res.msg.priority) = {}]_vars

\* C3: once the registry entry of a job id holds Completed or Error, no step
\* of a handler or a worker changes it.
C3_TerminalStateStability ==
    [][\A id \in JobIds : jobs[id].state \in Terminal => jobs'[id] = jobs[id]]_vars

\* a job has reached a terminal state and a later job has been picked up since
C3_Witness ==
    \E id1, id2 \in JobIds :
        /\ id1 < id2
        /\ jobs[id1].state \in Terminal
        /\ jobs[id2].state \in {"Running", "Completed", "Error"}

\* C4: the state a poller reads for a job id only moves forward along
\* Queued -> Running -> (Completed | Error): no step takes an entry back to an
\* earlier state, from one terminal state to the other, or out of the registry.
C4_LifecycleMonotone ==
    [][\A id \in JobIds :
          \/ jobs'[id].state = jobs[id].state
          \/ Rank(jobs'[id].state) > Rank(jobs[id].state)]_vars

\* a job went the whole way, and a rejected one went from Queued to Error
C4_Witness ==
    /\ \E id \in JobIds : jobs[id].state = "Completed"
    /\ \E id \in JobIds : jobs[id] = Error("queue error: QueueFull")

\* C5: the ids are drawn 1, 2, 3, ... in the order of the allocations, and
\* two requests in progress never hold the same id.
C5_JobIdMonotonic ==
    /\ \A i \in 1..Len(allocLog) : allocLog[i] = i
    /\ \A h1, h2 \in Handlers :
          (h1 # h2 /\ hst[h1].pc # "idle" /\ hst[h2].pc # "idle")
          => hst[h1].id # hst[h2].id

\* two requests are in progress at once, each with an id
C5_Witness ==
    /\ Len(allocLog) >= 2
    /\ \E h1, h2 \in Handlers :
          h1 # h2 /\ hst[h1].pc # "idle" /\ hst[h2].pc # "idle"

\* C6: after a POST /execute was answered 500 because the queue rejected it,
\* the registry holds no entry for the id the request had drawn.
C6_RejectedSubmissionLeavesNoJob ==
    \A h \in Handlers :
        hst[h].resp.code = 500 => jobs[hst[h].id].state = "Absent"

\* C7: a POST /execute naming a language outside the available set is
\* answered 400 in one step that changes nothing else: not the registry, not
\* the id counter, not the queue.
C7_UnavailableLanguageRejected ==
    [][\A h \in Handlers :
          (hst[h].pc = "idle" /\ hst'[h] # hst[h] /\ hst'[h].lang \notin Available)
          => /\ hst'[h].pc = "idle"
             /\ hst'[h].resp = [code |-> 400, id |-> 0]
             /\ UNCHANGED <<jobs, next_id, allocLog, bands, dlq, metrics,
                            msg_counter>>]_vars

\* a request was answered 400 while the registry held jobs
C7_Witness ==
    /\ \E h \in Handlers : hst[h].resp.code = 400
    /\ \E id \in JobIds : jobs[id].state # "Absent"

\* C8: the shutdown flag never goes back to false, and a send (blocking or
\* not) that starts while it is set returns QueueShutdown at once, leaving
\* the bands and the sent counter as they were.
C8_ShutdownStickyForProducers ==
    [][/\ is_shutdown => is_shutdown'
       /\ \A p \in Producers :
             (is_shutdown /\ pst[p].pc = "idle" /\ pst'[p] # pst[p])
             => /\ pst'[p].pc = "idle"
                /\ pst'[p].res = "QueueShutdown"
                /\ bands' = bands
                /\ metrics'.messages_sent = metrics.messages_sent]_vars

\* a send was refused after shutdown, after another had been accepted
C8_Witness ==
    /\ is_shutdown
    /\ metrics.messages_sent > 0
    /\ \E p \in Producers : pst[p].res = "QueueShutdown"

\* C9: a consumer call returns QueueShutdown only when the four bands are
\* empty (messages queued before shutdown() remain drainable).
C9_DrainAfterShutdown ==
    [][\A c \in Consumers :
          (cst'[c] # cst[c] /\ cst'[c].res.kind = "QueueShutdown")
          => BandsTotal(bands) = 0]_vars

\* C10: a nack that returns appends its message to the dead-letter queue
\* exactly when the incremented retry count exceeds max_retries, and then
\* returns ok; nothing else appends, and no message of the dead-letter queue
\* has a retry count <= max_retries.
C10_DeadLetterBound ==
    /\ [][/\ \A c \in Consumers :
                (Returned(c, "nack") /\ cst'[c].res.kind # "Panic")
                => IF cst'[c].res.msg.retry_count > MaxRetries
                   THEN dlq' = Append(dlq, cst'[c].res.msg) /\ cst'[c].res.kind = "Ok"
                   ELSE dlq' = dlq /\ cst'[c].res.kind = "RetryRequired"
          /\ dlq' # dlq
                => \E c \in Consumers :
                      Returned(c, "nack") /\ dlq' = Append(dlq, cst'[c].res.msg)]_vars
    /\ [](\A i \in 1..Len(dlq) : dlq[i].retry_count > MaxRetries)

\* one message went to the dead-letter queue and a later nack asked for a retry
C10_Witness ==
    /\ Len(dlq) > 0
    /\ \E c \in Consumers :
          /\ cst[c].res.op = "nack"
          /\ cst[c].res.kind = "RetryRequired"
          /\ cst[c].res.msg.retry_count = MaxRetries

C12_BackPressure ==
    /\ [][\A p \in Producers :
              (pst[p].pc = "put" /\ pst'[p] # pst[p])
              => IF Len(bands[pst[p].msg.priority]) >= Capacity
                 THEN /\ pst'[p].res = "QueueFull"
                      /\ bands' = bands
                      /\ metrics'.messages_sent = metrics.messages_sent
                 ELSE /\ pst'[p].res = "Ok"
                      /\ bands' = [bands EXCEPT ![pst[p].msg.priority] =
                                      Append(@, pst[p].msg)]]_vars
    /\ [](\A q \in Priorities : Len(bands[q]) <= Capacity)

\* a send was refused by a band that holds Capacity messages
C12_Witness ==
    \E p \in Producers, q \in Priorities :
        /\ pst[p].res = "QueueFull"
        /\ Len(bands[q]) = Capacity
        /\ metrics.messages_sent = Capacity

\* C13: with metrics enabled both counters start at zero, messages_sent goes
\* up by one in exactly the steps in which a send returns ok and
\* messages_received in exactly the steps in which try_recv or recv_timeout
\* returns a message; a send or a receive that fails moves neither.
C13_SentReceivedCount ==
    /\ (metrics.messages_sent = 0 /\ metrics.messages_received = 0)
    /\ [][/\ metrics'.messages_sent = metrics.messages_sent +
                Cardinality({p \in Producers :
                    pst'[p] # pst[p] /\ pst'[p].pc = "idle" /\ pst'[p].res = "Ok"})
          /\ metrics'.messages_received = metrics.messages_received +
                Cardinality({c \in Consumers :
                    /\ Returned(c, "try_recv") \/ Returned(c, "recv_timeout")
                    /\ cst'[c].res.kind = "Ok"})]_vars

\* sends and receives have succeeded and failed
C13_Witness ==
    /\ metrics.messages_sent >= 2
    /\ metrics.messages_received >= 1
    /\ \E p \in Producers : pst[p].res \in {"QueueFull", "QueueShutdown"}
    /\ \E c \in Consumers : cst[c].res.kind \in {"Empty", "Timeout", "QueueShutdown"}

\* C14: with metrics enabled, active_producers is the number of producer
\* handles created and not yet released, and active_consumers the number of
\* such consumer handles.
C14_GaugesCountLiveHandles ==
    /\ metrics.active_producers = Cardinality(LiveProducers)
    /\ metrics.active_consumers = Cardinality(LiveConsumers)

\* two producer handles are live, one in the middle of a send, and one of the
\* two consumer handles has been released after it had received a message
C14_Witness ==
    /\ metrics.active_producers = 2
    /\ metrics.active_consumers = 1
    /\ metrics.messages_received > 0
    /\ \E p \in Producers : pst[p].pc = "put"
    /\ \E c \in Consumers : cst[c].pc = "released"

\* a worker is inside execute_request or about to store what it returned
InExec(w) == wst[w].pc \in {"compile", "cases", "store"}

\* every CaseResult pushed so far: those of the calls in progress and those
\* of the responses in the registry
CaseResults ==
    UNION {{wst[w].results[i] : i \in 1..Len(wst[w].results)} :
              w \in {v \in Workers : InExec(v)}}
    \cup UNION {{jobs[id].detail.results[i] : i \in 1..Len(jobs[id].detail.results)} :
              id \in {j \in JobIds : jobs[j].state = "Completed"}}

\* C15: the compiled flag of a response is true exactly when a compile step
\* succeeded or the language has no compile step; a python3 job that ran its
\* cases yields compiled = true.
C15_CompiledFlag ==
    \A w \in Workers :
        (InExec(w) /\ wst[w].pc = "store" /\ wst[w].res.ok)
        => wst[w].res.resp.compiled =
              (wst[w].cstep = "ok" \/ ~CompileCommand(wst[w].lang).some)

\* C16: a case result has passed = true exactly when the test case has an
\* expected value and the captured stdout equals it character for character;
\* without an expected value passed is false.
C16_ExactMatchVerdict ==
    \A r \in CaseResults :
        r.passed = (r.expected.some /\ r.stdout = r.expected.val)

\* a response in the registry holds a case that passed and a case whose
\* stdout is the expected text plus a newline, which did not
C16_Witness ==
    \E id \in JobIds :
        /\ jobs[id].state = "Completed"
        /\ \E i, j \in 1..Len(jobs[id].detail.results) :
              /\ jobs[id].detail.results[i].passed
              /\ jobs[id].detail.results[i].stdout = <<"nl">>
              /\ ~jobs[id].detail.results[j].passed
              /\ jobs[id].detail.results[j].stdout = <<"nl">>
              /\ jobs[id].detail.results[j].expected = Some(<<>>)

\* C17: every case result has ok = (the child exited with status 0) and not
\* timed_out; and when the child was still running as its timeout elapsed,
\* the result has timed_out = true and ok = false whatever status was reaped.
C17_TimeoutFires ==
    /\ \A r \in CaseResults : r.ok = (r.exit_code = Some(0) /\ ~r.timed_out)
    /\ \A w \in Workers :
          (InExec(w) /\ wst[w].late)
          => /\ wst[w].results[Len(wst[w].results)].timed_out
             /\ ~wst[w].results[Len(wst[w].results)].ok

\* a child still running when its timeout elapsed exited with code 0 before
\* the kill landed, in the last case of the request
C17_Witness ==
    \E w \in Workers :
        /\ InExec(w)
        /\ wst[w].late
        /\ wst[w].results[Len(wst[w].results)].exit_code = Some(0)
        /\ wst[w].results[Len(wst[w].results)].timed_out
        /\ Len(wst[w].results) = MaxCases

\* C18: a case result with timed_out = true never has passed = true.
C18_TimedOutNeverPassed ==
    \A r \in CaseResults : r.timed_out => ~r.passed

\* C19: when the compile step exits non-zero the call returns at once, with
\* no case run, a response with compiled = false, status compile_error, the
\* compiler's stderr (decoded) as message and no results; the worker stores
\* it as Completed, and the job is not compiled again.
C19_CompileError ==
    /\ [](\A w \in Workers :
            (InExec(w) /\ wst[w].cstep = "failed")
            => /\ wst[w].pc = "store"
               /\ wst[w].results = <<>>
               /\ wst[w].res = ExecOk([compiled |-> FALSE, language |-> wst[w].lang,
                                       status |-> "compile_error",
                                       message |-> Some(Lossy(wst[w].cerr)),
                                       results |-> <<>>]))
    /\ [][\A w \in Workers :
            (InExec(w) /\ wst[w].cstep = "failed" /\ wst'[w] # wst[w])
            => /\ jobs'[wst[w].id] = Completed(wst[w].res.resp)
               /\ wst'[w].pc = "recv"
               /\ BandsTotal(bands') = 0]_vars

\* the registry holds a compile error whose message is the decoded stderr
C19_Witness ==
    \E id \in JobIds :
        /\ jobs[id].state = "Completed"
        /\ jobs[id].detail.status = "compile_error"
        /\ jobs[id].detail.language = "gcc"
        /\ jobs[id].detail.message = Some(<<"ufffd">>)

\* C20: when the child of a test case exits non-zero, dies from a signal or
\* times out, the case is recorded with ok = false and the call goes on: if
\* it was the last case, the call returns a success response with one result
\* per test case.
C20_CaseFailureDoesNotFailJob ==
    \A w \in Workers :
        (InExec(w) /\ wst[w].fate \in {"exit1", "signal", "timeout"})
        => /\ Len(wst[w].results) > 0
           /\ ~wst[w].results[Len(wst[w].results)].ok
           /\ wst[w].pc = "store"
              => /\ wst[w].res.ok
                 /\ wst[w].res.resp.status = "success"
                 /\ Len(wst[w].res.resp.results) = wst[w].todo


\* C21: a job that completes with status success carries exactly one
\* CaseResult per submitted test case, in submission order: the i-th result
\* has the id of the i-th test case of the request, both when the runner
\* returns and in the registry entry the worker stores
C21_ResultsInSubmissionOrder ==
    [][\A w \in Workers :
          (wst[w].pc = "store" /\ wst[w].res.ok
           /\ wst[w].res.resp.status = "success") =>
             /\ Len(wst[w].res.resp.results) = Len(wst[w].ids)
             /\ \A i \in 1..Len(wst[w].ids) :
                   wst[w].res.resp.results[i].id = wst[w].ids[i]
             /\ (wst'[w] # wst[w] =>
                   /\ jobs'[wst[w].id].state = "Completed"
                   /\ [i \in 1..Len(wst[w].ids) |->
                          jobs'[wst[w].id].detail.results[i].id] = wst[w].ids)]_vars

\* a job of two test cases submitted with ids 2 then 1 has completed with
\* two results
C21_Witness ==
    \E id \in JobIds :
       /\ jobs[id].state = "Completed"
       /\ jobs[id].detail.status = "success"
       /\ Len(jobs[id].detail.results) = 2
       /\ jobs[id].detail.results[1].id = 2
       /\ jobs[id].detail.results[2].id = 1


\* the positions of a worker inside execute_request, one await at a time
InCall == {"compile", "cases", "spawned", "written", "reaped", "drained",
           "blocked", "store"}

\* C22: a crashed execution leaves an Error state and a live worker: no
\* worker is ever dead, and a job that is Running is in the hands of a
\* worker that is executing it or about to store its outcome
C22_CrashLeavesError ==
    /\ \A w \in Workers : wst[w].pc # "dead"
    /\ \A id \in JobIds :
          jobs[id].state = "Running" =>
             \E w \in Workers : wst[w].id = id /\ wst[w].pc \in InCall \cup {"exec"}

\* the framework errors: creating the workspace or writing the source,
\* spawning the compiler or the program, reaping the child
FrameworkErrors == {"io error", "spawn failed", "wait failed"}

\* C23: when execute_request has returned an error, the worker stores
\* Error(<that string>) and nothing else, the entry is never Completed
\* afterwards, and GET /status/:id answers 200 with status "error" and the
\* same string
C23_FrameworkErrorState ==
    [][\A w \in Workers :
          (wst[w].pc = "store" /\ ~wst[w].res.ok /\ wst'[w] # wst[w]) =>
             /\ jobs'[wst[w].id] = Error(wst[w].res.err)
             /\ StatusReply(jobs'[wst[w].id]) =
                   [code |-> 200,
                    body |-> [status |-> "error", error |-> wst[w].res.err]]]_vars
    /\ [][\A id \in JobIds :
             jobs[id].state = "Error" => jobs'[id] = jobs[id]]_vars

\* a job whose child could not be reaped is in state Error("wait failed")
C23_Witness ==
    \E id \in JobIds :
       /\ jobs[id] = Error("wait failed")
       /\ jobs[id].detail \in FrameworkErrors
       /\ StatusReply(jobs[id]).body.status = "error"

C25_StuckChildAbsorbed ==
    \A w \in Workers : wst[w].pc # "blocked"

\* the ids of the messages waiting in the bands
BandIds(b) == UNION {{b[p][i].id : i \in 1..Len(b[p])} : p \in Priorities}

\* the consumers that hold a message handed to them by their last call
Holding == {c \in Consumers : cst[c].res.kind = "Ok"}

\* C26: under any interleaving of producers and consumers a message that was
\* sent is handed to at most one consumer call: the waiting messages are
\* pairwise distinct, a message handed to a call is no longer waiting, no two
\* consumers hold the same message, and the number of messages received
\* never exceeds the number sent
C26_AtMostOnceDelivery ==
    /\ metrics.messages_received <= metrics.messages_sent
    /\ Cardinality(BandIds(bands)) = BandsTotal(bands)
    /\ \A c \in Holding :
          /\ cst[c].res.msg.id \notin BandIds(bands)
          /\ \A d \in Holding \ {c} : cst[d].res.msg.id # cst[c].res.msg.id

\* the two consumers have each been handed a message, concurrently: each
\* call started before the other returned
C26_Witness ==
    /\ \A c \in Consumers : cst[c].res.op = "try_recv" /\ cst[c].res.kind = "Ok"
    /\ cst["c1"].res.msg.id # cst["c2"].res.msg.id
    /\ metrics.messages_received = 2

\* the same letter, case apart
SameLetter(a, b) == LowerChar(a) = LowerChar(b)

\* pattern occurs in name, letter by letter and case apart
OccursIn(pattern, name) ==
    \E i \in 0..(Len(name) - Len(pattern)) :
       \A k \in 1..Len(pattern) : SameLetter(name[i + k], pattern[k])

\* C27: detect_forbidden_processes reports a candidate name exactly when
\* its lowercase form contains the lowercase form of some denylist entry,
\* and reports nothing that is not a candidate
C27_DenylistCaseInsensitive ==
    mon.pc = "detected" =>
       /\ \A name \in Candidates(mon) :
             (\E i \in 1..Len(mon.answer) : mon.answer[i] = name)
             <=> (\E k \in 1..Len(mon.deny) : OccursIn(mon.deny[k], name))
       /\ \A i \in 1..Len(mon.answer) : mon.answer[i] \in Candidates(mon)

\* with "cO" on the denylist, "Co" is reported although it differs in case
\* from the entry letter by letter, and "oc" is running and not reported
C27_Witness ==
    /\ mon.pc = "detected"
    /\ mon.deny = << <<"c", "O">> >>
    /\ mon.answer = << <<"C", "o">> >>
    /\ <<"o", "c">> \in Candidates(mon)

\* C28: terminate_forbidden_processes attempts one kill for each running
\* process whose name matches a denylist entry and none for the others, and
\* returns the sorted, duplicate-free list of the names of the processes
\* of which a kill failed
C28_TerminateExactlyMatches ==
    mon.pc = "terminated" =>
       /\ \A pid \in DOMAIN mon.procs :
             mon.attempts[pid] =
                IF \E k \in 1..Len(mon.deny) : OccursIn(mon.deny[k], mon.procs[pid])
                THEN 1 ELSE 0
       /\ mon.answer = SortNames({mon.procs[pid] : pid \in mon.failedPids})
       /\ \A i \in 1..(Len(mon.answer) - 1) : NameLess(mon.answer[i], mon.answer[i + 1])

\* C29: once execute_request has returned or panicked for a job, the job's
\* workspace is no longer on disk and no child of the job is still running
C29_WorkspaceDestroyed ==
    /\ \A w \in Workers :
          wst[w].pc \in {"store", "dead"} =>
             wst[w].id \notin host.dirs /\ host.kids[wst[w].id] = 0
    /\ \A id \in JobIds :
          jobs[id].state \in Terminal => id \notin host.dirs /\ host.kids[id] = 0

\* C30: the test cases of a job run one after the other: a job never has
\* two children alive, and a child is only spawned when every child spawned
\* before it has been reaped, its output drained and its CaseResult
\* appended
C30_CasesSequential ==
    /\ [](\A id \in JobIds : host.kids[id] <= 1)
    /\ [][\A w \in Workers :
             (wst[w].pc \in InCall /\ host'.kids[wst[w].id] > host.kids[wst[w].id]) =>
                /\ host.kids[wst[w].id] = 0
                /\ wst[w].cur = NoCase
                /\ Len(wst[w].results) = wst[w].spawned]_vars

\* the child of the second test case is running, the first child has been
\* reaped and its result appended
C30_Witness ==
    \E w \in Workers :
       /\ wst[w].pc = "spawned"
       /\ wst[w].spawned = 2
       /\ Len(wst[w].results) = 1
       /\ host.kids[wst[w].id] = 1

\* C31: a worker leaves its loop only at a receive that reports the
\* shutdown and never comes back; a receive before the shutdown either
\* hands it a job or leaves it receiving, and in both cases leaves the
\* registry alone; a receive after the shutdown makes it leave
C31_WorkerLeavesOnShutdown ==
    [][\A w \in Workers :
          /\ wst[w].pc = "exited" => wst'[w].pc = "exited"
          /\ (wst[w].pc # "exited" /\ wst'[w].pc = "exited") =>
                wst[w].pc = "recv" /\ is_shutdown
          /\ (wst[w].pc = "recv" /\ wst'[w] # wst[w]) =>
                /\ jobs' = jobs
                /\ wst'[w].pc = IF is_shutdown THEN "exited" ELSE "mark"]_vars

\* a worker has left after the shutdown although a job was still waiting in
\* the queue, while the other worker goes on with the job it holds
C31_Witness ==
    /\ is_shutdown
    /\ BandsTotal(bands) > 0
    /\ wst["w1"].pc = "exited"
    /\ wst["w2"].pc \in {"mark", "exec"}

\* C32: retries are bounded: a message that is re-sent each time its nack
\* returns RetryRequired is delivered with a retry count equal to the
\* number of times it was re-sent, is re-sent at most max_retries times, and
\* reaches the dead-letter queue having been re-sent max_retries times
C32_RetriesBounded ==
    /\ \A p \in Priorities : \A i \in 1..Len(bands[p]) :
          /\ bands[p][i].retry_count = Resent(bands[p][i])
          /\ Resent(bands[p][i]) <= MaxRetries
    /\ \A i \in 1..Len(dlq) : Resent(dlq[i]) = MaxRetries

(***************************************************************************)
(* get_installed_languages: the version probe of every toolchain.          *)
(***************************************************************************)
\* what a probe's output is made of: a visible word, a blank, a line break
\* and the words the classification looks for
Tokens == {"v", "sp", "nl", "not", "found", "recognized"}
Outputs == UNION {[1..n -> Tokens] : n \in 0..MaxOut}
ErrOutputs == {<<>>, <<"found">>, <<"recognized">>}

\* timeout(Duration::from_secs(3), cmd.output()): elapsed, Err(_), Ok(output)
ProbeOutcomes ==
    {[kind |-> k, stdout |-> <<>>, stderr |-> <<>>] : k \in {"timeout", "spawn_err"}}
    \cup [kind : {"done"}, stdout : Outputs, stderr : ErrOutputs]

\* combined.push_str(&stdout); combined.push_str(&stderr)
Combined(o) == o.stdout \o o.stderr

\* combined.contains("not found") || combined.contains("not recognized")
ClassifiedAbsentNotFoundOnly(c) == Contains(c, <<"not", "sp", "found">>)
ClassifiedAbsent(c) ==
    \/ Contains(c, <<"not", "sp", "found">>)
    \/ Contains(c, <<"not", "sp", "recognized">>)

\* str::trim
RECURSIVE Trim(_)
Trim(l) ==
    IF l = <<>> THEN l
    ELSE IF Head(l) = "sp" THEN Trim(Tail(l))
    ELSE IF l[Len(l)] = "sp" THEN Trim(SubSeq(l, 1, Len(l) - 1))
    ELSE l

\* combined.lines().find(|l| !l.trim().is_empty())
RECURSIVE FirstLine(_)
FirstLine(c) ==
    IF c = <<>> THEN None
    ELSE LET ends == {i \in 1..Len(c) : c[i] = "nl"} \cup {Len(c) + 1}
             e == CHOOSE i \in ends : \A k \in ends : i <= k
             line == SubSeq(c, 1, e - 1)
         IN IF Trim(line) # <<>> THEN Some(line)
            ELSE FirstLine(SubSeq(c, e + 1, Len(c)))

\* the body of one probe task: None on timeout, on a spawn error, on a
\* classified output and on an output without a non-blank line; otherwise
\* the version is .map(|s| s.trim().to_string())
ProbeResult(o) ==
    IF o.kind # "done" THEN None
    ELSE IF ClassifiedAbsent(Combined(o)) THEN None
    ELSE LET l == FirstLine(Combined(o))
         IN IF l.some THEN Some(Trim(l.val)) ELSE None

\* one probe task completes (FuturesUnordered: in any order); a Some is
\* pushed onto installed.  installed keeps the names; the LanguageInfo of
\* the task that completed last is in last (run() drops the versions)
ProbeLanguage(lang, o) ==
    /\ probe.pc = "probing"
    /\ lang \in probe.todo
    /\ LET r == ProbeResult(o)
       IN probe' = [probe EXCEPT
              !.todo = @ \ {lang},
              !.installed = IF r.some THEN Append(@, lang) ELSE @,
              !.last = <<[name |-> lang, outcome |-> o, info |-> r]>>]
    /\ UNCHANGED <<bands, dlq, is_shutdown, enable_metrics, metrics, msg_counter,
                   pst, cst, next_id, jobs, hst, wst, allocLog, host, mon>>

\* installed.iter().map(|li| li.name.clone()).collect()
InstalledNames == {probe.installed[i] : i \in 1..Len(probe.installed)}

\* run(): every probe is back; available and langs_list are built, the
\* queue is created, the worker pool takes its consumer handles and the
\* server starts
ProbeServe ==
    /\ probe.pc = "probing"
    /\ probe.todo = {}
    /\ probe' = [probe EXCEPT !.pc = "serving", !.last = <<>>,
                               !.available = InstalledNames,
                               !.langs_list = probe.installed,
                               !.installed = <<>>]
    /\ metrics' = [ZeroMetrics EXCEPT !.active_consumers = Cardinality(Workers)]
    /\ UNCHANGED <<bands, dlq, is_shutdown, enable_metrics, msg_counter,
                   pst, cst, next_id, jobs, hst, wst, allocLog, host, mon>>

\* languages_handler: Json((*state.langs_list).clone())
LangsList == probe.langs_list

InitProbe ==
    /\ bands = [p \in Priorities |-> <<>>]
    /\ dlq = <<>>
    /\ is_shutdown = FALSE
    /\ enable_metrics = TRUE
    /\ metrics = ZeroMetrics
    /\ msg_counter = 0
    /\ pst = [p \in Producers |-> IdleP]
    /\ cst = [c \in Consumers |-> IdleC]
    /\ next_id = 1
    /\ jobs = [id \in JobIds |-> Absent]
    /\ hst = [h \in Handlers |-> IdleH]
    /\ wst = [w \in Workers |-> IdleW]
    /\ allocLog = <<>>
    /\ host = NoHost
    /\ mon = NoMon
    /\ probe = [pc |-> "probing", todo |-> Configs, installed |-> <<>>,
                last |-> <<>>, available |-> {}, langs_list |-> <<>>]

NextProbe ==
    \/ \E lang \in Configs, o \in ProbeOutcomes : ProbeLanguage(lang, o)
    \/ ProbeServe
    \/ probe.pc = "serving" /\ \E lang \in Languages : EnqueueReject("h1", lang)
    \/ probe.pc = "serving" /\ \E lang \in Languages : EnqueueAlloc("h1", lang)
    \/ EnqueueInsert("h1")
    \/ EnqueueSend("h1")
    \/ EnqueueFail("h1")

SpecProbe == InitProbe /\ [][NextProbe]_vars

\* the phrase "not <word>" occurs in the output
HasPhrase(c, word) ==
    \E i \in 1..(Len(c) - 2) : c[i] = "not" /\ c[i+1] = "sp" /\ c[i+2] = word

\* the probe completed in time, its output carries neither phrase and has a
\* non-blank line
ProbeAccepts(o) ==
    /\ o.kind = "done"
    /\ ~HasPhrase(Combined(o), "found")
    /\ ~HasPhrase(Combined(o), "recognized")
    /\ \E i \in 1..Len(Combined(o)) : Combined(o)[i] \notin {"sp", "nl"}

\* positions a..b of the output are its first non-blank line
IsFirstNonBlankLine(c, a, b) ==
    /\ 1 <= a /\ a <= b /\ b <= Len(c)
    /\ \A k \in a..b : c[k] # "nl"
    /\ a = 1 \/ c[a-1] = "nl"
    /\ b = Len(c) \/ c[b+1] = "nl"
    /\ \E k \in a..b : c[k] # "sp"
    /\ \A k \in 1..(a-1) : c[k] \in {"sp", "nl"}

\* the language probed last is installed exactly if its probe is accepted
\* and an installed language stays so; the available set and the list of
\* GET /languages are exactly the installed languages and never change;
\* POST /execute admits exactly the available keys
ProbeAdmission ==
    /\ [](\A i \in 1..Len(probe.last) :
             probe.last[i].name \in InstalledNames
                <=> ProbeAccepts(probe.last[i].outcome))
    /\ [](Available = {LangsList[i] : i \in 1..Len(LangsList)})
    /\ [][/\ probe.pc = "probing" =>
                /\ InstalledNames \subseteq InstalledNames' \cup Available'
                /\ \A i \in 1..Len(probe.last) :
                      probe.last[i].name \in InstalledNames' \cup Available'
                         <=> probe.last[i].name \in InstalledNames
                /\ probe'.pc = "serving" => Available' = InstalledNames
          /\ probe.pc = "serving" => Available' = Available
          /\ (hst["h1"].pc = "idle" /\ hst'["h1"] # hst["h1"]) =>
                /\ probe.pc = "serving"
                /\ hst'["h1"].resp.code = 400 <=> hst'["h1"].lang \notin Available]_vars

\* C33 as stated: a language key is available (admitted by POST /execute,
\* listed by GET /languages) exactly if its probe completed in time with an
\* output free of "not found" and "not recognized" that has a non-blank line,
\* and the reported version is that first non-blank line
C33_VersionIsFirstLine ==
    /\ ProbeAdmission
    /\ [](\A i \in 1..Len(probe.last) :
             probe.last[i].name \in InstalledNames =>
                LET c == Combined(probe.last[i].outcome)
                IN \E a, b \in 1..Len(c) :
                      /\ IsFirstNonBlankLine(c, a, b)
                      /\ probe.last[i].info = Some(SubSeq(c, a, b)))

\* C33 amended: as above, but the reported version is the first non-blank
\* line without its leading and trailing blanks
C33_ToolchainProbing ==
    /\ ProbeAdmission
    /\ [](\A i \in 1..Len(probe.last) :
             probe.last[i].name \in InstalledNames =>
                LET c == Combined(probe.last[i].outcome)
                IN \E a, b \in 1..Len(c) : \E x, y \in a..b :
                      /\ IsFirstNonBlankLine(c, a, b)
                      /\ \A k \in a..b : c[k] # "sp" => (x <= k /\ k <= y)
                      /\ c[x] # "sp" /\ c[y] # "sp"
                      /\ probe.last[i].info = Some(SubSeq(c, x, y)))

\* a probe whose first non-blank line is indented made its language
\* available, although its error output carries the word "recognized"
C33_Witness ==
    \E i \in 1..Len(probe.last) :
       /\ probe.last[i].outcome.stdout = <<"sp", "v">>
       /\ probe.last[i].outcome.stderr = <<"recognized">>
       /\ probe.last[i].name \in InstalledNames

(***************************************************************************)
(* The runner under the scheduling of the tokio runtime: a handler or a    *)
(* worker task that can take a step is eventually polled.                  *)
(***************************************************************************)
HandlerStep(h) == EnqueueInsert(h) \/ EnqueueSend(h) \/ EnqueueFail(h)

RunnerStep(w) ==
    \/ WorkerRecv(w)
    \/ WorkerMarkRunning(w)
    \/ \E n \in 0..MaxCases, io \in {"ok", "io error"} :
          ExecPrepare(w, PositionIds(n), io)
    \/ \E c \in CompileOutcomes : ExecCompile(w, c)
    \/ ExecCaseFails(w, "spawn failed", "")
    \/ \E tc \in QuietCases, big \in BOOLEAN, child \in QuietChildren,
          how \in Behaviours : ExecSpawn(w, tc, big, child, how)
    \/ \E gone \in BOOLEAN : ExecWriteStdin(w, gone)
    \/ \E fails \in BOOLEAN : ExecSelect(w, fails)
    \/ ExecDrain(w)
    \/ ExecPush(w)
    \/ ExecStore(w)

SpecRunFair ==
    /\ Init /\ [][NextRun]_vars
    /\ WF_vars(HandlerStep("h1"))
    /\ WF_vars(RunnerStep("w1"))

\* C34: when every child that was started ends (exits or is killed and
\* reaped), every job in the registry that is Queued or Running eventually
\* is Completed or Error
C34_AdmittedJobsFinish ==
    (\A id \in JobIds : (host.kids[id] > 0) ~> (host.kids[id] = 0))
    => (\A id \in JobIds :
           (jobs[id].state \in {"Queued", "Running"}) ~> (jobs[id].state \in Terminal))

\* the registry entries in state Running
RunningIds == {id \in JobIds : jobs[id].state = "Running"}

\* C35: at most as many registry entries are Running as there are workers;
\* no two workers hold the same job, and an entry becomes Running only from
\* Queued and is never Queued again, so no job is run twice
C35_RunningBoundedOnce ==
    /\ [](Cardinality(RunningIds) <= Cardinality(Workers))
    /\ [](\A v, w \in Workers :
             (v # w /\ wst[v].pc \in {"mark", "exec"} /\ wst[w].pc \in {"mark", "exec"})
             => wst[v].id # wst[w].id)
    /\ [][\A id \in JobIds :
             /\ (jobs[id].state # "Running" /\ jobs'[id].state = "Running")
                   => jobs[id].state = "Queued"
             /\ jobs'[id].state = "Queued" => jobs[id].state \in {"Absent", "Queued"}]_vars

\* both workers run a job while a third job waits
C35_Witness ==
    /\ Cardinality(RunningIds) = Cardinality(Workers)
    /\ \E id \in JobIds : jobs[id].state = "Queued"

\* concurrent admissions served by a single worker
NextAdmit ==
    \/ \E h \in Handlers, lang \in Available : EnqueueAlloc(h, lang)
    \/ \E h \in Handlers : EnqueueInsert(h)
    \/ \E h \in Handlers : EnqueueSend(h)
    \/ \E h \in Handlers : EnqueueFail(h)
    \/ WorkerRecv("w1")
    \/ WorkerMarkRunning("w1")
    \/ \E outcome \in ExecOutcomes : WorkerStore("w1", outcome)

SpecAdmit == Init /\ [][NextAdmit]_vars

\* the job ids waiting in the Normal band, in band order
NormalIds(b) == [i \in 1..Len(b[Normal]) |-> b[Normal][i].payload[1]]

\* a handler is between the allocation of id and the end of its enqueue
InAdmission(id) ==
    \E h \in Handlers : hst[h].pc \in {"insert", "send", "fail"} /\ hst[h].id = id

\* C36 as stated: the ids in the Normal band are strictly increasing, and a
\* job becomes Running only when no job with a smaller id is still to run
C36_SubmissionOrderPreserved ==
    /\ [](\A i, j \in 1..Len(bands[Normal]) :
             i < j => NormalIds(bands)[i] < NormalIds(bands)[j])
    /\ [][\A id \in JobIds :
             (jobs[id].state = "Queued" /\ jobs'[id].state = "Running") =>
                \A a \in 1..(id - 1) : jobs[a].state \notin {"Absent", "Queued"}]_vars

\* C36 amended: a job enters the Normal band behind the jobs waiting there,
\* and every job with a smaller id has entered before it (or its enqueue has
\* failed) unless its handler is still between id allocation and enqueue;
\* the single worker takes the jobs in the order in which they entered
C36_EnqueueOrderPreserved ==
    [][/\ \A h \in Handlers :
             (hst[h].pc = "send" /\ hst'[h].resp.code = 202) =>
                /\ NormalIds(bands') = Append(NormalIds(bands), hst[h].id)
                /\ \A a \in 1..(hst[h].id - 1) :
                      \/ InAdmission(a)
                      \/ jobs[a].state \in {"Running"} \cup Terminal
                      \/ \E i \in 1..Len(bands[Normal]) : NormalIds(bands)[i] = a
                      \/ \E w \in Workers : wst[w].pc = "mark" /\ wst[w].id = a
       /\ (wst["w1"].pc = "recv" /\ wst'["w1"].pc = "mark") =>
             /\ wst'["w1"].id = NormalIds(bands)[1]
             /\ NormalIds(bands') = Tail(NormalIds(bands))
       /\ \A id \in JobIds :
             (jobs[id].state = "Queued" /\ jobs'[id].state = "Running") =>
                wst["w1"].pc = "mark" /\ wst["w1"].id = id]_vars

\* job 2 waits in the band in front of job 1: their admissions overlapped
C36_Witness ==
    /\ Len(bands[Normal]) = 2
    /\ NormalIds(bands) = <<2, 1>>

\* one producer sending on every band, blocking or not, and one consumer
\* that receives with try_recv and recv_timeout and nacks what it was handed
NextConserve ==
    \/ Shutdown
    \/ \E priority \in Priorities, blocking \in BOOLEAN : SendStart("p1", priority, blocking)
    \/ SendPut("p1")
    \/ SendBlockingPut("p1")
    \/ TryRecvStart("c1")
    \/ TryRecvProbe("c1")
    \/ RecvTimeout("c1")
    \/ Nack("c1", cst["c1"].res.msg.retry_count)

SpecConserve == InitQueue /\ [][NextConserve]_vars

\* no send and no receive is between its first and its last step
QueueQuiet ==
    /\ \A p \in Producers : pst[p].pc = "idle"
    /\ \A c \in Consumers : cst[c].pc = "idle"

Delivered(c) ==
    /\ cst'[c] # cst[c]
    /\ cst'[c].res.kind = "Ok"
    /\ cst'[c].res.op \in {"try_recv", "recv_timeout"}

\* C38: with one producer, whose sends complete in the order of their
\* message ids, and one consumer: the messages waiting in a band are in the
\* order of their sends, and a receive (try_recv or recv_timeout) returns the
\* oldest message of the band it serves, so every message of that priority
\* sent before it was delivered before it
C38_FifoWithinBand ==
    /\ [](\A p \in Priorities : \A i, j \in 1..Len(bands[p]) :
             i < j => bands[p][i].id < bands[p][j].id)
    /\ [][\A c \in Consumers :
             Delivered(c) =>
                LET m == cst'[c].res.msg
                IN /\ m = Head(bands[m.priority])
                   /\ \A i \in 1..Len(bands'[m.priority]) :
                         bands'[m.priority][i].id > m.id]_vars

\* recv_timeout has returned the older of two Normal messages while a
\* message of another priority waits as well
C38_Witness ==
    /\ cst["c1"].res.kind = "Ok"
    /\ cst["c1"].res.op = "recv_timeout"
    /\ cst["c1"].res.msg.priority = Normal
    /\ Len(bands[Normal]) > 0
    /\ \E p \in Priorities \ {Normal} : Len(bands[p]) > 0

\* the sends against shutdown() with threads that run: a producer inside a
\* call gets to finish it when the channel lets it, and the consumer keeps
\* calling recv_timeout
SpecSendFair ==
    /\ InitQueue /\ [][NextSend]_vars
    /\ \A p \in Producers : WF_vars(SendPut(p)) /\ WF_vars(SendBlockingPut(p))
    /\ WF_vars(RecvTimeout("c1"))

\* C39: a send_blocking that waits for capacity when the queue is shut down
\* eventually returns
C39_BlockedSendReturns ==
    \A p \in Producers :
       (pst[p].pc = "bput" /\ is_shutdown) ~> (pst[p].pc = "idle")

\* a new queue built with enable_metrics: false, no handle yet
InitHandlesOff ==
    /\ bands = [p \in Priorities |-> <<>>]
    /\ dlq = <<>>
    /\ is_shutdown = FALSE
    /\ enable_metrics = FALSE
    /\ metrics = ZeroMetrics
    /\ msg_counter = 0
    /\ pst = [p \in Producers |-> ReleasedP]
    /\ cst = [c \in Consumers |-> ReleasedC]
    /\ next_id = 1
    /\ jobs = [id \in JobIds |-> Absent]
    /\ hst = [h \in Handlers |-> IdleH]
    /\ wst = [w \in Workers |-> IdleW]
    /\ allocLog = <<>>
    /\ host = NoHost
    /\ probe = Probed
    /\ mon = NoMon

SpecHandlesOff == InitHandlesOff /\ [][NextHandles]_vars

\* C40: with metrics disabled the gauges of live producers and live
\* consumers stay 0 whatever handles are created and released
C40_GaugesStayZero ==
    /\ metrics.active_producers = 0
    /\ metrics.active_consumers = 0

=============================================================================
